---------------------------- MODULE Spec2Model ----------------------------
(***************************************************************************)
(* RDS-sanitized-snapshots: the Step Functions state machine built by      *)
(* src/cfm.py (add_state_machine) driving the Lambda handlers of           *)
(* src/lambda/rds.py against the RDS and tagging APIs.                     *)
(*                                                                         *)
(* Python strings that the code inspects character by character            *)
(* (identifiers, status strings, the rendered snapshot name) are tuples of *)
(* one-character strings; strings that are only compared for equality      *)
(* (state names, execution ids, tag keys, parameter values) are TLA+       *)
(* strings.  A Python dict is a function whose DOMAIN is its key set, so a *)
(* missing key is something the model can observe (KeyError).              *)
(***************************************************************************)
EXTENDS Integers, Sequences, FiniteSets, TLC

VARIABLES
    pc,          \* pc[u]: the state the execution u is in (a state name)
    execStatus,  \* execStatus[u]: "IDLE", "RUNNING", "SUCCEEDED", "FAILED", or
                 \* "DIRECT" when handlers are invoked without the state machine
    attempts,    \* attempts[u]: retries already consumed by the current state
    delay,       \* delay[u]: seconds waited before the latest retry of the state
    state,       \* state[u]: the payload ("state" of the event) of execution u
    lastError,   \* lastError[u]: error name of the last invocation, or "none"
    lastStatus,  \* lastStatus[u]: the last resource status a wait handler read
    trace,       \* trace[u]: the state names entered so far, in order
    dbs,         \* RDS database instances: DBInstanceIdentifier -> record
    snapshots,   \* RDS snapshots: DBSnapshotIdentifier -> record
    calls,       \* mutating calls that returned successfully (history)
    parameters   \* the parameters of the deployed CloudFormation stack

vars == <<pc, execStatus, attempts, delay, state, lastError, lastStatus, trace,
          dbs, snapshots, calls, parameters>>

---------------------------------------------------------------------------
(* Bounds of the model and the values inputs are drawn from.               *)

\* ResourcesPerPage of GetResources, scaled down: one call returns one page.
PageSize == 2
\* How many times the direct-invocation harness calls one handler.
MaxInvocations == 2
\* The retries of one state the engine is followed through when two executions
\* run side by side.
MaxRetriesFollowed == 1
\* How many snapshots the source database has when FindLatestSnapshot is
\* invoked directly.
MaxSnapshots == 3

Min(a, b) == IF a < b THEN a ELSE b

Letters == {"a", "b", "c", "d", "e", "f", "g", "h", "i", "j", "k", "l", "m",
            "n", "o", "p", "q", "r", "s", "t", "u", "v", "w", "x", "y", "z",
            "A", "B", "C", "D", "E", "F", "G", "H", "I", "J", "K", "L", "M",
            "N", "O", "P", "Q", "R", "S", "T", "U", "V", "W", "X", "Y", "Z"}
Digits == {"0", "1", "2", "3", "4", "5", "6", "7", "8", "9"}

\* Execution ids ($$.Execution.Id) of the runs the model follows.
UIDs == {"exec-1", "exec-2"}
\* The source database (${Db}) and the engines RDS may report for it.
SourceDb == <<"d", "b">>
Engines == {"postgres", "mysql", "mariadb", "oracle-ee"}
\* AllowedValues of the NewSnapshot parameter.
NewSnapshotValues == {"Take new snapshot", "Use latest existing snapshot"}
KmsValues == {"", "key-1"}
\* ShareAccounts (List<String>): no account, or one account.
ShareAccountLists == {<<>>, <<"111122223333">>}
\* Status strings RDS reports for instances and snapshots.
StAvailable == <<"a", "v", "a", "i", "l", "a", "b", "l", "e">>
StCreating == <<"c", "r", "e", "a", "t", "i", "n", "g">>
StFailed == <<"f", "a", "i", "l", "e", "d">>
Statuses == {StAvailable, StCreating, StFailed}
\* Status strings a polled resource can show, among them strings that spell a
\* bad status in upper or mixed case and strings that merely resemble another.
StatusStrings ==
    {StAvailable, StCreating, StFailed,
     <<"A", "v", "a", "i", "l", "a", "b", "l", "e">>, <<"u", "n", "a", "v", "a", "i", "l", "a", "b", "l", "e">>,
     <<"b", "a", "c", "k", "i", "n", "g", "-", "u", "p">>, <<"m", "o", "d", "i", "f", "y", "i", "n", "g">>,
     <<"s", "t", "o", "p", "p", "e", "d">>, <<"S", "t", "o", "p", "p", "i", "n", "g">>,
     <<"d", "e", "l", "e", "t", "i", "n", "g">>, <<"d", "e", "l", "e", "t", "e", "d">>,
     <<"F", "A", "I", "L", "E", "D">>, <<"F", "a", "i", "l", "e", "d">>,
     <<"i", "n", "c", "o", "m", "p", "a", "t", "i", "b", "l", "e", "-", "r", "e", "s", "t", "o", "r", "e">>,
     <<"I", "n", "c", "o", "m", "p", "a", "t", "i", "b", "l", "e", "-", "R", "e", "s", "t", "o", "r", "e">>,
     <<"i", "n", "a", "c", "c", "e", "s", "s", "i", "b", "l", "e", "-", "e", "n", "c", "r", "y", "p", "t", "i", "o", "n", "-", "c", "r", "e", "d", "e", "n", "t", "i", "a", "l", "s">>,
     <<"s", "t", "o", "r", "a", "g", "e", "-", "e", "r", "r", "o", "r">>, <<"E", "R", "R", "O", "R">>}
NoStatus == <<>>
\* datetime.datetime.now() at the time Initialize runs.
Dates == {[Y |-> <<"2", "0", "2", "6">>, m |-> <<"1", "1">>, d |-> <<"0", "5">>]}
\* Values secrets.token_hex(5) can return (10 hexadecimal characters).
HexTokens == {<<"0", "0", "0", "0", "0", "0", "0", "0", "a", "1">>, <<"0", "0", "0", "0", "0", "0", "0", "0", "b", "2">>}
\* Values secrets.token_hex(32) can return, by name.
Passwords == {"pw-1"}

---------------------------------------------------------------------------
(* Python building blocks.                                                 *)

\* s[:n]
Take(s, n) == SubSeq(s, 1, Min(n, Len(s)))

\* sub in s
Contains(s, sub) ==
    \E i \in 0..(Len(s) - Len(sub)) : SubSeq(s, i + 1, i + Len(sub)) = sub

\* d[k] = v on a dict
Put(d, k, v) == [x \in (DOMAIN d) \cup {k} |-> IF x = k THEN v ELSE d[x]]

\* the dict without the keys K
Remove(d, K) == [x \in (DOMAIN d) \ K |-> d[x]]

EmptyDict == [x \in {} |-> x]

\* secrets.token_hex(n): 2n hexadecimal characters
token_hex(n) == {t \in HexTokens : Len(t) = 2 * n}

\* datetime.strftime for the directives %Y, %m and %d
RECURSIVE strftime(_, _)
strftime(now, fmt) ==
    IF fmt = <<>> THEN <<>>
    ELSE LET h == Head(fmt)
             piece == CASE h = "%Y" -> now.Y
                        [] h = "%m" -> now.m
                        [] h = "%d" -> now.d
                        [] OTHER -> <<h>>
         IN piece \o strftime(now, Tail(fmt))

\* A format string is a sequence of pieces: literal text, or a replacement
\* field {database_identifier:.N} (precision -1: none) or {date:<strftime>}.
Literal(text) ==
    [kind |-> "literal", text |-> text, precision |-> -1, datefmt |-> <<>>]
DbField(precision) ==
    [kind |-> "database_identifier", text |-> <<>>, precision |-> precision,
     datefmt |-> <<>>]
DateField(datefmt) ==
    [kind |-> "date", text |-> <<>>, precision |-> -1, datefmt |-> datefmt]

\* str.format(database_identifier=..., date=...)
RECURSIVE format(_, _, _)
format(fmt, database_identifier, date) ==
    IF fmt = <<>> THEN <<>>
    ELSE LET p == Head(fmt)
             piece ==
                 CASE p.kind = "literal" -> p.text
                   [] p.kind = "database_identifier" ->
                        IF p.precision < 0 THEN database_identifier
                        ELSE Take(database_identifier, p.precision)
                   [] p.kind = "date" -> strftime(date, p.datefmt)
         IN piece \o format(Tail(fmt), database_identifier, date)

\* Default of the SnapshotFormat parameter:
\* "{database_identifier:.42}-sanitized-{date:%Y-%m-%d}"
DefaultSnapshotFormat ==
    <<DbField(42), Literal(<<"-", "s", "a", "n", "i", "t", "i", "z", "e", "d", "-">>),
      DateField(<<"%Y", "-", "%m", "-", "%d">>)>>
\* A format the operator may supply whose rendering ends in a hyphen.
HyphenSnapshotFormat == <<DbField(-1), Literal(<<"-">>)>>
SnapshotFormats == {DefaultSnapshotFormat, HyphenSnapshotFormat}

\* re.match("[a-z][a-z0-9\\-]{1,62}", tsid, re.I): a match of a prefix of tsid
re_match(tsid) ==
    \E k \in 1..62 :
        /\ k + 1 <= Len(tsid)
        /\ tsid[1] \in Letters
        /\ \A i \in 2..(k + 1) : tsid[i] \in Letters \cup Digits \cup {"-"}

\* _tags(uid); NoUid stands for the default uid=None
NoUid == "None"

\* Fault: _tags that leaves the ownership tag out.
_tags_without_uid(uid) ==
    {[Key |-> "RDS-sanitized-snapshots", Value |-> "yes"]}

_tags(uid) ==
    LET tags == {[Key |-> "RDS-sanitized-snapshots", Value |-> "yes"]}
    IN IF uid # NoUid
       THEN tags \cup {[Key |-> "RDS-sanitized-snapshots-temp", Value |-> uid]}
       ELSE tags

\* Fault: _check_status that knows the pattern "stop" only.
_check_status_stop_only(s) ==
    IF Contains(s, <<"s", "t", "o", "p">>) THEN "ValueError" ELSE "none"

\* s.lower()
lower(s) ==
    LET upper == <<"A", "B", "C", "D", "E", "F", "G", "H", "I", "J", "K", "L", "M",
                   "N", "O", "P", "Q", "R", "S", "T", "U", "V", "W", "X", "Y", "Z">>
        small == <<"a", "b", "c", "d", "e", "f", "g", "h", "i", "j", "k", "l", "m",
                   "n", "o", "p", "q", "r", "s", "t", "u", "v", "w", "x", "y", "z">>
    IN [i \in DOMAIN s |->
           IF \E k \in DOMAIN upper : upper[k] = s[i]
           THEN small[CHOOSE k \in DOMAIN upper : upper[k] = s[i]]
           ELSE s[i]]

\* The substrings _check_status looks for.
BadStatusPatterns ==
    {<<"s", "t", "o", "p">>, <<"d", "e", "l", "e", "t">>, <<"f", "a", "i", "l">>,
     <<"i", "n", "c", "o", "m", "p", "a", "t", "i", "b", "l", "e">>, <<"i", "n", "a", "c", "c", "e", "s", "s", "i", "b", "l", "e">>, <<"e", "r", "r", "o", "r">>}

\* Fault: _check_status that lowers the status before it looks for a pattern.
_check_status_lower(s) ==
    IF \E p \in BadStatusPatterns : Contains(lower(s), p) THEN "ValueError"
    ELSE "none"

\* _check_status(s): the exception it raises, or "none"
_check_status(s) ==
    IF \/ Contains(s, <<"s", "t", "o", "p">>) \/ Contains(s, <<"d", "e", "l", "e", "t">>)
       \/ Contains(s, <<"f", "a", "i", "l">>) \/ Contains(s, <<"i", "n", "c", "o", "m", "p", "a", "t", "i", "b", "l", "e">>)
       \/ Contains(s, <<"i", "n", "a", "c", "c", "e", "s", "s", "i", "b", "l", "e">>) \/ Contains(s, <<"e", "r", "r", "o", "r">>)
    THEN "ValueError"
    ELSE "none"

\* str(n) for a non-negative integer
RECURSIVE str(_)
str(n) ==
    LET digit == <<"0", "1", "2", "3", "4", "5", "6", "7", "8", "9">>[(n % 10) + 1]
    IN IF n < 10 THEN <<digit>> ELSE str(n \div 10) \o <<digit>>

---------------------------------------------------------------------------
(* The RDS and Resource Groups Tagging APIs, as the handlers call them.    *)
(* rds is [dbs |-> ..., snapshots |-> ...]; every operation gives the set  *)
(* of responses the service can produce, each with the error it raises     *)
(* ("none" when it returns) and the service's contents after the call.     *)
(* Any call can fail with a ClientError and leave the service untouched.   *)

Failed(error, rds) == [Error |-> error, rds |-> rds]

\* Account ids ModifyDBSnapshotAttribute accepts in ValuesToAdd.
ValidAccount(a) == a # ""

\* The ARN of a resource, as its colon-separated fields.
ResourceARN(type, id) ==
    <<"arn", "aws", "rds", "us-east-1", "123456789012", type, id>>

\* ARN.split(":")[-1]
LastField(arn) == arn[Len(arn)]

\* The sequences that list every element of the finite set S once.
Orderings(S) ==
    {q \in [1..Cardinality(S) -> S] : \A e \in S : \E i \in DOMAIN q : q[i] = e}

\* The statuses a describe call can report for the resource r: the status r
\* is known to be in, or any of Statuses for a resource whose progress the
\* model does not follow.
StatusOf(r, field) == IF field \in DOMAIN r THEN {r[field]} ELSE Statuses

\* Whether a describe call reports pending modifications for the database r
\* (a non-empty PendingModifiedValues): what r is known to have, or either.
PendingOf(r) ==
    IF "PendingModifiedValues" \in DOMAIN r THEN {r["PendingModifiedValues"]}
    ELSE BOOLEAN

\* rds_client.describe_db_instances(DBInstanceIdentifier=id)["DBInstances"][0]
describe_db_instances(rds, id) ==
    {[Error |-> "ClientError"]} \cup
    IF id \notin DOMAIN rds.dbs THEN {[Error |-> "DBInstanceNotFoundFault"]}
    ELSE {[Error |-> "none",
           DBInstance |->
               LET db == [Engine |-> rds.dbs[id].Engine,
                          DBInstanceStatus |-> st,
                          PendingModifiedValues |-> pending,
                          Endpoint |-> [Address |-> id, Port |-> 5432],
                          MasterUsername |-> "master"]
               IN IF named THEN Put(db, "DBName", "app") ELSE db]
          : st \in StatusOf(rds.dbs[id], "DBInstanceStatus"),
            pending \in PendingOf(rds.dbs[id]), named \in BOOLEAN}

\* rds_client.describe_db_snapshots(DBSnapshotIdentifier=id)["DBSnapshots"][0]
describe_db_snapshots(rds, id) ==
    {[Error |-> "ClientError"]} \cup
    IF id \notin DOMAIN rds.snapshots THEN {[Error |-> "DBSnapshotNotFoundFault"]}
    ELSE {[Error |-> "none", DBSnapshot |-> [Status |-> st]]
          : st \in StatusOf(rds.snapshots[id], "Status")}

\* get_paginator("describe_db_snapshots").paginate(DBInstanceIdentifier=db):
\* the snapshots of all pages, in the order the service lists them
paginate_db_snapshots(rds, db) ==
    LET ids == {i \in DOMAIN rds.snapshots :
                    rds.snapshots[i].DBInstanceIdentifier = db}
    IN {[Error |-> "ClientError"]} \cup
       {[Error |-> "none",
         DBSnapshots |->
             [n \in DOMAIN q |->
                 [SnapshotCreateTime |-> rds.snapshots[q[n]].SnapshotCreateTime,
                  DBSnapshotIdentifier |-> q[n]]]]
        : q \in Orderings(ids)}

\* The creation time of a snapshot made now: later than every existing one.
Now(rds) ==
    LET times == {rds.snapshots[i].SnapshotCreateTime : i \in DOMAIN rds.snapshots}
    IN IF times = {} THEN 1
       ELSE 1 + CHOOSE t \in times : \A o \in times : o <= t

\* rds_client.create_db_snapshot(DBInstanceIdentifier, DBSnapshotIdentifier, Tags)
create_db_snapshot(rds, DBInstanceIdentifier, DBSnapshotIdentifier, Tags) ==
    {Failed("ClientError", rds)} \cup
    IF DBInstanceIdentifier \notin DOMAIN rds.dbs
    THEN {Failed("DBInstanceNotFoundFault", rds)}
    ELSE IF DBSnapshotIdentifier \in DOMAIN rds.snapshots
    THEN {Failed("DBSnapshotAlreadyExistsFault", rds)}
    ELSE {[Error |-> "none",
           rds |-> [rds EXCEPT !.snapshots =
               Put(@, DBSnapshotIdentifier,
                   [DBInstanceIdentifier |-> DBInstanceIdentifier,
                    Engine |-> rds.dbs[DBInstanceIdentifier].Engine,
                    SnapshotCreateTime |-> Now(rds),
                    Tags |-> Tags,
                    restore |-> {}])]]}

\* rds_client.restore_db_instance_from_db_snapshot(DBInstanceIdentifier,
\*     DBSnapshotIdentifier, ..., Tags)
restore_db_instance_from_db_snapshot(rds, DBInstanceIdentifier, DBSnapshotIdentifier, Tags) ==
    {Failed("ClientError", rds)} \cup
    IF DBSnapshotIdentifier \notin DOMAIN rds.snapshots
    THEN {Failed("DBSnapshotNotFoundFault", rds)}
    ELSE IF DBInstanceIdentifier \in DOMAIN rds.dbs
    THEN {Failed("DBInstanceAlreadyExistsFault", rds)}
    ELSE {[Error |-> "none",
           rds |-> [rds EXCEPT !.dbs =
               Put(@, DBInstanceIdentifier,
                   [Engine |-> rds.snapshots[DBSnapshotIdentifier].Engine,
                    DBSnapshotIdentifier |-> DBSnapshotIdentifier,
                    Tags |-> Tags])]]}

\* rds_client.modify_db_instance(DBInstanceIdentifier, ..., MasterUserPassword)
modify_db_instance(rds, DBInstanceIdentifier) ==
    {Failed("ClientError", rds)} \cup
    IF DBInstanceIdentifier \notin DOMAIN rds.dbs
    THEN {Failed("DBInstanceNotFoundFault", rds)}
    ELSE {[Error |-> "none", rds |-> rds]}

\* rds_client.modify_db_snapshot_attribute(DBSnapshotIdentifier,
\*     AttributeName="restore", ValuesToAdd)
modify_db_snapshot_attribute(rds, DBSnapshotIdentifier, ValuesToAdd) ==
    {Failed("ClientError", rds)} \cup
    IF DBSnapshotIdentifier \notin DOMAIN rds.snapshots
    THEN {Failed("DBSnapshotNotFoundFault", rds)}
    ELSE IF \E i \in DOMAIN ValuesToAdd : ~ValidAccount(ValuesToAdd[i])
    THEN {Failed("InvalidParameterValue", rds)}
    ELSE {[Error |-> "none",
           rds |-> [rds EXCEPT !.snapshots[DBSnapshotIdentifier].restore =
               @ \cup {ValuesToAdd[i] : i \in DOMAIN ValuesToAdd}]]}

\* rds_client.delete_db_instance(DBInstanceIdentifier, SkipFinalSnapshot=True,
\*     DeleteAutomatedBackups=True)
delete_db_instance(rds, DBInstanceIdentifier) ==
    {Failed("ClientError", rds)} \cup
    IF DBInstanceIdentifier \notin DOMAIN rds.dbs
    THEN {Failed("DBInstanceNotFoundFault", rds)}
    ELSE {[Error |-> "none",
           DBInstance |-> rds.dbs[DBInstanceIdentifier],
           rds |-> [rds EXCEPT !.dbs = Remove(@, {DBInstanceIdentifier})]]}

\* rds_client.delete_db_snapshot(DBSnapshotIdentifier)
delete_db_snapshot(rds, DBSnapshotIdentifier) ==
    {Failed("ClientError", rds)} \cup
    IF DBSnapshotIdentifier \notin DOMAIN rds.snapshots
    THEN {Failed("DBSnapshotNotFoundFault", rds)}
    ELSE {[Error |-> "none",
           DBSnapshot |-> rds.snapshots[DBSnapshotIdentifier],
           rds |-> [rds EXCEPT !.snapshots = Remove(@, {DBSnapshotIdentifier})]]}

\* The resources of type t ("rds:db" or "rds:snapshot") carrying the tag.
Tagged(rds, t, key, value) ==
    LET all == IF t = "rds:db" THEN rds.dbs ELSE rds.snapshots
    IN {i \in DOMAIN all : [Key |-> key, Value |-> value] \in all[i].Tags}

\* res_client.get_resources(ResourceTypeFilters=[t], TagFilters=[{Key, Values}])
\* ["ResourceTagMappingList"]: one call, so the first page only, of at most
\* PageSize resources, in the order the service lists them
get_resources(rds, t, key, value) ==
    LET all == Tagged(rds, t, key, value)
        type == IF t = "rds:db" THEN "db" ELSE "snapshot"
    IN {[Error |-> "ClientError"]} \cup
       {[Error |-> "none",
         ResourceTagMappingList |->
             [n \in DOMAIN q |-> [ResourceARN |-> ResourceARN(type, q[n])]]]
        : q \in UNION {Orderings(page) :
                 page \in {p \in SUBSET all :
                              Cardinality(p) = Min(PageSize, Cardinality(all))}}}

---------------------------------------------------------------------------
(* The handlers of src/lambda/rds.py.  handler_x(state, uid, rds) is the   *)
(* set of outcomes of one invocation: the exception it raises ("none" when *)
(* it returns), the payload it leaves, the service's contents afterwards,  *)
(* the mutating calls that returned, and the status a wait handler read.   *)

\* A call that returned: the operation, the resource it names, the resource it
\* was made from (for a create) and the tags it sent (for a create) or the tags
\* of the resource the service reports deleted (for a delete).
Call(op, id, source, Tags) ==
    [op |-> op, id |-> id, source |-> source, Tags |-> Tags]

Return(state_, rds, calls_) ==
    [error |-> "none", state |-> state_, rds |-> rds, calls |-> calls_,
     status |-> NoStatus]

Raise(error, state_, rds, calls_) ==
    [error |-> error, state |-> state_, rds |-> rds, calls |-> calls_,
     status |-> NoStatus]

\* The outcome o, with the status string the handler read.
Saw(status, o) == [o EXCEPT !.status = status]

\* The rule of initialize for the rendered target snapshot name.
InvalidSnapshotId(tsid) ==
    \/ ~re_match(tsid)
    \/ Contains(tsid, <<"-", "-">>)
    \/ tsid[Len(tsid)] = "-"

\* Fault: initialize that keeps the random target_snapshot_id of line 54
\* instead of the rendered name.
initialize_keeping_random_target(state_, uid, rds) ==
    IF ~({"db_identifier", "snapshot_format"} \subseteq DOMAIN state_)
    THEN {Raise("KeyError", state_, rds, {})}
    ELSE UNION {
        IF resp.Error # "none" THEN {Raise(resp.Error, state_, rds, {})}
        ELSE {LET orig_db == resp.DBInstance
                  prefix == Take(state_["db_identifier"], 55)
                  s1 == Put(state_, "engine", orig_db.Engine)
                  s2 == Put(s1, "temporary_snapshot_id", prefix \o <<"-">> \o t1)
                  s3 == Put(s2, "temp_db_id", prefix \o <<"-">> \o t2)
                  s4 == Put(s3, "target_snapshot_id", prefix \o <<"-">> \o t3)
              IN Return(s4, rds, {})
              : t1 \in token_hex(5), t2 \in token_hex(5), t3 \in token_hex(5)}
        : resp \in describe_db_instances(rds, state_["db_identifier"])}

\* @state_function("Initialize")
initialize(state_, uid, rds) ==
    IF ~({"db_identifier", "snapshot_format"} \subseteq DOMAIN state_)
    THEN {Raise("KeyError", state_, rds, {})}
    ELSE UNION {
        IF resp.Error # "none" THEN {Raise(resp.Error, state_, rds, {})}
        ELSE {LET orig_db == resp.DBInstance
                  prefix == Take(state_["db_identifier"], 55)
                  s1 == Put(state_, "engine", orig_db.Engine)
                  s2 == Put(s1, "temporary_snapshot_id", prefix \o <<"-">> \o t1)
                  s3 == Put(s2, "temp_db_id", prefix \o <<"-">> \o t2)
                  s4 == Put(s3, "target_snapshot_id", prefix \o <<"-">> \o t3)
                  tsid == format(state_["snapshot_format"],
                                 state_["db_identifier"], now)
                  s5 == Put(s4, "target_snapshot_id", tsid)
              IN IF InvalidSnapshotId(tsid)
                 THEN Raise("ValueError", s5, rds, {})
                 ELSE Return(s5, rds, {})
              : t1 \in token_hex(5), t2 \in token_hex(5), t3 \in token_hex(5),
                now \in Dates}
        : resp \in describe_db_instances(rds, state_["db_identifier"])}

\* Fault: the list is left in the order the pages gave (no sort).
sort_skipped(list) == [Error |-> "none", sorted |-> list]

\* snapshots.sort() on (SnapshotCreateTime, snapshot) tuples: tuples with equal
\* times make Python compare the snapshot dicts, which raises TypeError
sort(list) ==
    IF \E i, j \in DOMAIN list :
          i # j /\ list[i].SnapshotCreateTime = list[j].SnapshotCreateTime
    THEN [Error |-> "TypeError"]
    ELSE [Error |-> "none",
          sorted |-> CHOOSE q \in Orderings({list[i] : i \in DOMAIN list}) :
              \A i, j \in DOMAIN q :
                  i < j => q[i].SnapshotCreateTime < q[j].SnapshotCreateTime]

\* @state_function("FindLatestSnapshot")
find_latest_snapshot(state_, uid, rds) ==
    IF "db_identifier" \notin DOMAIN state_
    THEN {Raise("KeyError", state_, rds, {})}
    ELSE {IF resp.Error # "none" THEN Raise(resp.Error, state_, rds, {})
          ELSE LET r == sort(resp.DBSnapshots)
               IN IF r.Error # "none" THEN Raise(r.Error, state_, rds, {})
                  ELSE IF r.sorted = <<>> THEN Raise("IndexError", state_, rds, {})
                  ELSE Return(Put(state_, "snapshot_id",
                                  r.sorted[Len(r.sorted)].DBSnapshotIdentifier),
                              rds, {})
          : resp \in paginate_db_snapshots(rds, state_["db_identifier"])}

\* @state_function("TakeSnapshot")
take_snapshot(state_, uid, rds) ==
    IF "temp_snapshot_id" \notin DOMAIN state_
    THEN {Raise("KeyError", state_, rds, {})}
    ELSE LET s1 == Put(state_, "snapshot_id", state_["temp_snapshot_id"])
         IN IF "db_identifier" \notin DOMAIN s1
            THEN {Raise("KeyError", s1, rds, {})}
            ELSE {IF resp.Error # "none" THEN Raise(resp.Error, s1, rds, {})
                  ELSE Return(s1, resp.rds,
                              {Call("create_db_snapshot", s1["snapshot_id"],
                                    s1["db_identifier"], _tags(uid))})
                  : resp \in create_db_snapshot(rds, s1["db_identifier"],
                                                s1["snapshot_id"], _tags(uid))}

\* Fault: take_final_snapshot that snapshots the source database.
take_final_snapshot_of_source(state_, uid, rds) ==
    IF ~({"target_snapshot_id", "db_identifier"} \subseteq DOMAIN state_)
    THEN {Raise("KeyError", state_, rds, {})}
    ELSE LET s1 == Put(state_, "snapshot_id", state_["target_snapshot_id"])
         IN {IF resp.Error # "none" THEN Raise(resp.Error, s1, rds, {})
             ELSE Return(s1, resp.rds,
                         {Call("create_db_snapshot", s1["snapshot_id"],
                               s1["db_identifier"], _tags(NoUid))})
             : resp \in create_db_snapshot(rds, s1["db_identifier"],
                                           s1["snapshot_id"], _tags(NoUid))}

\* Fault: take_final_snapshot that tags the snapshot as temporary (_tags(uid)).
take_final_snapshot_tagged(state_, uid, rds) ==
    IF ~({"target_snapshot_id", "temp_db_id"} \subseteq DOMAIN state_)
    THEN {Raise("KeyError", state_, rds, {})}
    ELSE LET s1 == Put(state_, "snapshot_id", state_["target_snapshot_id"])
         IN {IF resp.Error # "none" THEN Raise(resp.Error, s1, rds, {})
             ELSE Return(s1, resp.rds,
                         {Call("create_db_snapshot", s1["snapshot_id"],
                               s1["temp_db_id"], _tags(uid))})
             : resp \in create_db_snapshot(rds, s1["temp_db_id"],
                                           s1["snapshot_id"], _tags(uid))}

\* Fault: take_final_snapshot that leaves state["snapshot_id"] as it was.
take_final_snapshot_keeping_snapshot_id(state_, uid, rds) ==
    IF ~({"target_snapshot_id", "temp_db_id"} \subseteq DOMAIN state_)
    THEN {Raise("KeyError", state_, rds, {})}
    ELSE {IF resp.Error # "none" THEN Raise(resp.Error, state_, rds, {})
          ELSE Return(state_, resp.rds,
                      {Call("create_db_snapshot", state_["target_snapshot_id"],
                            state_["temp_db_id"], _tags(NoUid))})
          : resp \in create_db_snapshot(rds, state_["temp_db_id"],
                                        state_["target_snapshot_id"], _tags(NoUid))}

\* @state_function("TakeFinalSnapshot")
take_final_snapshot(state_, uid, rds) ==
    IF "target_snapshot_id" \notin DOMAIN state_
    THEN {Raise("KeyError", state_, rds, {})}
    ELSE LET s1 == Put(state_, "snapshot_id", state_["target_snapshot_id"])
         IN IF "temp_db_id" \notin DOMAIN s1
            THEN {Raise("KeyError", s1, rds, {})}
            ELSE {IF resp.Error # "none" THEN Raise(resp.Error, s1, rds, {})
                  ELSE Return(s1, resp.rds,
                              {Call("create_db_snapshot", s1["snapshot_id"],
                                    s1["temp_db_id"], _tags(NoUid))})
                  : resp \in create_db_snapshot(rds, s1["temp_db_id"],
                                                s1["snapshot_id"], _tags(NoUid))}

\* @state_function("WaitForSnapshot"), @state_function("WaitForFinalSnapshot")
wait_for_snapshot(state_, uid, rds) ==
    IF "snapshot_id" \notin DOMAIN state_
    THEN {Raise("KeyError", state_, rds, {})}
    ELSE {IF resp.Error # "none" THEN Raise(resp.Error, state_, rds, {})
          ELSE LET status == resp.DBSnapshot.Status
               IN Saw(status,
                      IF status = StAvailable THEN Return(state_, rds, {})
                      ELSE IF _check_status(status) # "none"
                      THEN Raise(_check_status(status), state_, rds, {})
                      ELSE Raise("NotReady", state_, rds, {}))
          : resp \in describe_db_snapshots(rds, state_["snapshot_id"])}

\* @state_function("CreateTempDatabase")
create_temp_database(state_, uid, rds) ==
    IF ~({"temp_db_id", "snapshot_id", "security_group_id", "subnet_group_id"}
            \subseteq DOMAIN state_)
    THEN {Raise("KeyError", state_, rds, {})}
    ELSE {IF resp.Error # "none" THEN Raise(resp.Error, state_, rds, {})
          ELSE Return(state_, resp.rds,
                      {Call("restore_db_instance_from_db_snapshot",
                            state_["temp_db_id"], state_["snapshot_id"],
                            _tags(uid))})
          : resp \in restore_db_instance_from_db_snapshot(
                         rds, state_["temp_db_id"], state_["snapshot_id"],
                         _tags(uid))}

\* Fault: wait_for_temp_database that does not look at PendingModifiedValues.
wait_for_temp_database_ignoring_pending(state_, uid, rds) ==
    IF "temp_db_id" \notin DOMAIN state_
    THEN {Raise("KeyError", state_, rds, {})}
    ELSE {IF resp.Error # "none" THEN Raise(resp.Error, state_, rds, {})
          ELSE LET status == resp.DBInstance.DBInstanceStatus
               IN Saw(status,
                      IF status = StAvailable THEN Return(state_, rds, {})
                      ELSE IF _check_status(status) # "none"
                      THEN Raise(_check_status(status), state_, rds, {})
                      ELSE Raise("NotReady", state_, rds, {}))
          : resp \in describe_db_instances(rds, state_["temp_db_id"])}

\* @state_function("WaitForTempDatabase"), @state_function("WaitForPassword")
wait_for_temp_database(state_, uid, rds) ==
    IF "temp_db_id" \notin DOMAIN state_
    THEN {Raise("KeyError", state_, rds, {})}
    ELSE {IF resp.Error # "none" THEN Raise(resp.Error, state_, rds, {})
          ELSE LET db == resp.DBInstance
                   status == db.DBInstanceStatus
               IN Saw(status,
                      IF status = StAvailable /\ ~db.PendingModifiedValues
                      THEN Return(state_, rds, {})
                      ELSE IF _check_status(status) # "none"
                      THEN Raise(_check_status(status), state_, rds, {})
                      ELSE Raise("NotReady", state_, rds, {}))
          : resp \in describe_db_instances(rds, state_["temp_db_id"])}

\* @state_function("SetTempPassword")
set_temp_password(state_, uid, rds) ==
    IF "temp_db_id" \notin DOMAIN state_
    THEN {Raise("KeyError", state_, rds, {})}
    ELSE UNION {
        IF resp.Error # "none" THEN {Raise(resp.Error, state_, rds, {})}
        ELSE LET db == resp.DBInstance
             IN IF "DBName" \notin DOMAIN db
                THEN {Raise("KeyError", state_, rds, {})}
                ELSE UNION {
                    LET s1 == Put(state_, "db",
                                  [host |-> db.Endpoint.Address,
                                   port |-> str(db.Endpoint.Port),
                                   user |-> db.MasterUsername,
                                   password |-> password,
                                   database |-> db["DBName"]])
                    IN {IF m.Error # "none" THEN Raise(m.Error, s1, rds, {})
                        ELSE Return(s1, m.rds,
                                    {Call("modify_db_instance", s1["temp_db_id"],
                                          <<>>, {})})
                        : m \in modify_db_instance(rds, s1["temp_db_id"])}
                    : password \in Passwords}
        : resp \in describe_db_instances(rds, state_["temp_db_id"])}

\* @state_function("ShareSnapshot")
share_snapshot(state_, uid, rds) ==
    IF "shared_accounts" \notin DOMAIN state_
    THEN {Raise("KeyError", state_, rds, {})}
    ELSE IF state_["shared_accounts"] = <<>> THEN {Return(state_, rds, {})}
    ELSE IF "snapshot_id" \notin DOMAIN state_
    THEN {Raise("KeyError", state_, rds, {})}
    ELSE {IF resp.Error # "none" THEN Raise(resp.Error, state_, rds, {})
          ELSE Return(state_, resp.rds,
                      {Call("modify_db_snapshot_attribute", state_["snapshot_id"],
                            <<>>, {})})
          : resp \in modify_db_snapshot_attribute(rds, state_["snapshot_id"],
                                                  state_["shared_accounts"])}

\* Fault: _ids that filters on the tag every run sets (RDS-sanitized-snapshots
\* = yes) instead of the ownership tag of the caller.
_ids_by_common_tag(rds, t, i) ==
    {IF resp.Error # "none" THEN [Error |-> resp.Error]
     ELSE [Error |-> "none",
           ids |-> [n \in DOMAIN resp.ResourceTagMappingList |->
                       LastField(resp.ResourceTagMappingList[n].ResourceARN)]]
     : resp \in get_resources(rds, t, "RDS-sanitized-snapshots", "yes")}

\* _ids(t, i): the identifiers of the first page of resources of type t tagged
\* with i, or the error get_resources raises
_ids(rds, t, i) ==
    {IF resp.Error # "none" THEN [Error |-> resp.Error]
     ELSE [Error |-> "none",
           ids |-> [n \in DOMAIN resp.ResourceTagMappingList |->
                       LastField(resp.ResourceTagMappingList[n].ResourceARN)]]
     : resp \in get_resources(rds, t, "RDS-sanitized-snapshots-temp", i)}

\* Fault: the loops of cleanup with every delete call wrapped in a try/except
\* that passes.
RECURSIVE delete_each_ignoring_errors(_, _, _)
delete_each_ignoring_errors(rds, t, ids) ==
    IF ids = <<>> THEN {[Error |-> "none", rds |-> rds, calls |-> {}]}
    ELSE UNION {
        IF resp.Error # "none"
        THEN delete_each_ignoring_errors(rds, t, Tail(ids))
        ELSE {[rest EXCEPT !.calls =
                  @ \cup {IF t = "rds:db"
                          THEN Call("delete_db_instance", Head(ids), <<>>,
                                    resp.DBInstance.Tags)
                          ELSE Call("delete_db_snapshot", Head(ids), <<>>,
                                    resp.DBSnapshot.Tags)}]
              : rest \in delete_each_ignoring_errors(resp.rds, t, Tail(ids))}
        : resp \in IF t = "rds:db" THEN delete_db_instance(rds, Head(ids))
                   ELSE delete_db_snapshot(rds, Head(ids))}

\* The loops of cleanup: delete the resources of ids in order, stopping at the
\* first call that raises.  t is "rds:db" or "rds:snapshot".
RECURSIVE delete_each(_, _, _)
delete_each(rds, t, ids) ==
    IF ids = <<>> THEN {[Error |-> "none", rds |-> rds, calls |-> {}]}
    ELSE UNION {
        IF resp.Error # "none"
        THEN {[Error |-> resp.Error, rds |-> rds, calls |-> {}]}
        ELSE {[rest EXCEPT !.calls =
                  @ \cup {IF t = "rds:db"
                          THEN Call("delete_db_instance", Head(ids), <<>>,
                                    resp.DBInstance.Tags)
                          ELSE Call("delete_db_snapshot", Head(ids), <<>>,
                                    resp.DBSnapshot.Tags)}]
              : rest \in delete_each(resp.rds, t, Tail(ids))}
        : resp \in IF t = "rds:db" THEN delete_db_instance(rds, Head(ids))
                   ELSE delete_db_snapshot(rds, Head(ids))}

\* Fault: cleanup that deletes the snapshots and skips the databases.
cleanup_snapshots_only(state_, uid, rds) ==
    UNION {
        IF sl.Error # "none" THEN {Raise(sl.Error, state_, rds, {})}
        ELSE {IF s.Error # "none" THEN Raise(s.Error, state_, s.rds, s.calls)
              ELSE Return(state_, s.rds, s.calls)
              : s \in delete_each(rds, "rds:snapshot", sl.ids)}
        : sl \in _ids(rds, "rds:snapshot", uid)}

\* @state_function("Cleanup"), @state_function("ErrorCleanup")
cleanup(state_, uid, rds) ==
    UNION {
        IF dbl.Error # "none" THEN {Raise(dbl.Error, state_, rds, {})}
        ELSE UNION {
            IF d.Error # "none" THEN {Raise(d.Error, state_, d.rds, d.calls)}
            ELSE UNION {
                IF sl.Error # "none" THEN {Raise(sl.Error, state_, d.rds, d.calls)}
                ELSE {IF s.Error # "none"
                      THEN Raise(s.Error, state_, s.rds, d.calls \cup s.calls)
                      ELSE Return(state_, s.rds, d.calls \cup s.calls)
                      : s \in delete_each(d.rds, "rds:snapshot", sl.ids)}
                : sl \in _ids(d.rds, "rds:snapshot", uid)}
            : d \in delete_each(rds, "rds:db", dbl.ids)}
        : dbl \in _ids(rds, "rds:db", uid)}

\* The registry filled by @state_function: state name -> handler.
states ==
    [Initialize |-> "initialize",
     FindLatestSnapshot |-> "find_latest_snapshot",
     TakeSnapshot |-> "take_snapshot",
     TakeFinalSnapshot |-> "take_final_snapshot",
     WaitForSnapshot |-> "wait_for_snapshot",
     WaitForFinalSnapshot |-> "wait_for_snapshot",
     CreateTempDatabase |-> "create_temp_database",
     WaitForTempDatabase |-> "wait_for_temp_database",
     WaitForPassword |-> "wait_for_temp_database",
     SetTempPassword |-> "set_temp_password",
     ShareSnapshot |-> "share_snapshot",
     Cleanup |-> "cleanup",
     ErrorCleanup |-> "cleanup"]

\* handler(event, context): looks the state name up and calls its handler
handler(event, rds) ==
    IF event.state_name \notin DOMAIN states
    THEN {Raise("KeyError", event.state, rds, {})}
    ELSE LET f == states[event.state_name]
             s == event.state
             uid == event.uid
         IN CASE f = "initialize" -> initialize(s, uid, rds)
              [] f = "find_latest_snapshot" -> find_latest_snapshot(s, uid, rds)
              [] f = "take_snapshot" -> take_snapshot(s, uid, rds)
              [] f = "take_final_snapshot" -> take_final_snapshot(s, uid, rds)
              [] f = "wait_for_snapshot" -> wait_for_snapshot(s, uid, rds)
              [] f = "create_temp_database" -> create_temp_database(s, uid, rds)
              [] f = "wait_for_temp_database" -> wait_for_temp_database(s, uid, rds)
              [] f = "set_temp_password" -> set_temp_password(s, uid, rds)
              [] f = "share_snapshot" -> share_snapshot(s, uid, rds)
              [] f = "cleanup" -> cleanup(s, uid, rds)

---------------------------------------------------------------------------
(* The state machine definition built by add_state_machine (src/cfm.py).   *)

None == "None"

\* Fault: add_state that adds no Catch.
add_state_without_catch(state_name, next_state_name, catch_state, retry) ==
    [Type |-> "Task",
     Resource |-> "lambda",
     Next |-> next_state_name,
     Catch |-> <<>>,
     Retry |-> retry]

\* add_state(state_name, next_state_name, catch_state, retry): the Task state
\* that invokes the Lambda function.  retry is <<>> (None) or <<retrier>>.
add_state(state_name, next_state_name, catch_state, retry) ==
    [Type |-> "Task",
     Resource |-> "lambda",
     Next |-> next_state_name,
     Catch |-> IF catch_state # None
               THEN <<[ErrorEquals |-> {"States.ALL"}, Next |-> catch_state]>>
               ELSE <<>>,
     Retry |-> retry]

\* Fault: add_waiting_state whose retrier matches every error.
add_waiting_state_retry_all(state_name, next_state_name, catch_state) ==
    add_state(state_name, next_state_name, catch_state,
              <<[ErrorEquals |-> {"States.ALL"},
                 IntervalSeconds |-> 60,
                 MaxAttempts |-> 300,
                 BackoffRate |-> 1]>>)

\* add_waiting_state(state_name, next_state_name, catch_state)
add_waiting_state(state_name, next_state_name, catch_state) ==
    add_state(state_name, next_state_name, catch_state,
              <<[ErrorEquals |-> {"NotReady"},
                 IntervalSeconds |-> 60,
                 MaxAttempts |-> 300,
                 BackoffRate |-> 1]>>)

\* add_task_state(state_name, task_arn, next_state_name, catch_state): the Task
\* state that runs the sanitizing ECS task and waits for it (runTask.sync)
add_task_state(state_name, task_arn, next_state_name, catch_state) ==
    [Type |-> "Task",
     Resource |-> "ecs:runTask.sync",
     ResultPath |-> "SanitizeResult",
     Environment |-> {<<"db", "host">>, <<"db", "port">>, <<"db", "user">>,
                      <<"db", "password">>, <<"db", "database">>},
     TaskDefinition |-> task_arn,
     Next |-> next_state_name,
     Catch |-> IF catch_state # None
               THEN <<[ErrorEquals |-> {"States.ALL"}, Next |-> catch_state]>>
               ELSE <<>>,
     Retry |-> <<>>]

\* Fault: the retrier of Cleanup with the BackoffRate of the waiting states.
CleanupRetryConstant ==
    <<[ErrorEquals |-> {"States.ALL"}, IntervalSeconds |-> 120, MaxAttempts |-> 10,
       BackoffRate |-> 1]>>

\* The retrier of Cleanup and of ErrorCleanup (it sets no BackoffRate).
CleanupRetry ==
    <<[ErrorEquals |-> {"States.ALL"}, IntervalSeconds |-> 120, MaxAttempts |-> 10]>>

\* states["ChooseSnapshot"]
ChooseSnapshotState ==
    [Type |-> "Choice",
     Choices |-> <<[Variable |-> "new_snapshot",
                    StringEquals |-> "Take new snapshot",
                    Next |-> "TakeSnapshot"],
                   [Variable |-> "new_snapshot",
                    StringEquals |-> "Use latest existing snapshot",
                    Next |-> "FindLatestSnapshot"]>>,
     Default |-> "ErrorCleanup"]

\* Fault: ShouldEncrypt with its two targets exchanged.
ShouldEncryptInverted ==
    [Type |-> "Choice",
     Choices |-> <<[Variable |-> "kms",
                    StringEquals |-> "",
                    Next |-> "Encrypt"]>>,
     Default |-> "CreateTempDatabase"]

\* states["ShouldEncrypt"]
ShouldEncryptState ==
    [Type |-> "Choice",
     Choices |-> <<[Variable |-> "kms",
                    StringEquals |-> "",
                    Next |-> "CreateTempDatabase"]>>,
     Default |-> "Encrypt"]

\* Fault: ChooseSanitizer whose default is the postgres sanitizer.
ChooseSanitizerDefaultPostgres ==
    [Type |-> "Choice",
     Choices |-> <<[Variable |-> "engine",
                    StringEquals |-> "mysql",
                    Next |-> "SanitizeMySQL"],
                   [Variable |-> "engine",
                    StringEquals |-> "mariadb",
                    Next |-> "SanitizeMariaDB"]>>,
     Default |-> "SanitizePostgres"]

\* states["ChooseSanitizer"]
ChooseSanitizerState ==
    [Type |-> "Choice",
     Choices |-> <<[Variable |-> "engine",
                    StringEquals |-> "postgres",
                    Next |-> "SanitizePostgres"],
                   [Variable |-> "engine",
                    StringEquals |-> "mysql",
                    Next |-> "SanitizeMySQL"],
                   [Variable |-> "engine",
                    StringEquals |-> "mariadb",
                    Next |-> "SanitizeMariaDB"]>>,
     Default |-> "ErrorCleanup"]

\* Fault: Cleanup whose Next is Cleanup.
CleanupStateLoop == add_state("Cleanup", "Cleanup", None, CleanupRetry)

\* add_state("Cleanup", "Success", retry=...)
CleanupState == add_state("Cleanup", "Success", None, CleanupRetry)

\* Fault: ErrorCleanup that goes on to Success.
ErrorCleanupToSuccess == add_state("ErrorCleanup", "Success", None, CleanupRetry)

\* add_state("ErrorCleanup", "Failure", retry=...)
ErrorCleanupState == add_state("ErrorCleanup", "Failure", None, CleanupRetry)

\* The "States" object of the definition.
StateMachine ==
    [Success |-> [Type |-> "Succeed"],
     Failure |-> [Type |-> "Fail"],
     Initialize |-> add_state("Initialize", "ChooseSnapshot", "ErrorCleanup", <<>>),
     ChooseSnapshot |-> ChooseSnapshotState,
     TakeSnapshot |-> add_state("TakeSnapshot", "WaitForSnapshot", "ErrorCleanup", <<>>),
     WaitForSnapshot |->
        add_waiting_state("WaitForSnapshot", "ShouldEncrypt", "ErrorCleanup"),
     FindLatestSnapshot |->
        add_state("FindLatestSnapshot", "ShouldEncrypt", "ErrorCleanup", <<>>),
     ShouldEncrypt |-> ShouldEncryptState,
     Encrypt |-> add_state("Encrypt", "WaitForEncrypt", "ErrorCleanup", <<>>),
     WaitForEncrypt |->
        add_waiting_state("WaitForEncrypt", "CreateTempDatabase", "ErrorCleanup"),
     CreateTempDatabase |->
        add_state("CreateTempDatabase", "WaitForTempDatabase", "ErrorCleanup", <<>>),
     WaitForTempDatabase |->
        add_waiting_state("WaitForTempDatabase", "SetTempPassword", "ErrorCleanup"),
     SetTempPassword |->
        add_state("SetTempPassword", "WaitForPassword", "ErrorCleanup", <<>>),
     WaitForPassword |->
        add_waiting_state("WaitForPassword", "ChooseSanitizer", "ErrorCleanup"),
     ChooseSanitizer |-> ChooseSanitizerState,
     SanitizePostgres |->
        add_task_state("SanitizePostgres", "postgres", "TakeFinalSnapshot", "ErrorCleanup"),
     SanitizeMySQL |->
        add_task_state("SanitizeMySQL", "mysql", "TakeFinalSnapshot", "ErrorCleanup"),
     SanitizeMariaDB |->
        add_task_state("SanitizeMariaDB", "mariadb", "TakeFinalSnapshot", "ErrorCleanup"),
     TakeFinalSnapshot |->
        add_state("TakeFinalSnapshot", "WaitForFinalSnapshot", "ErrorCleanup", <<>>),
     WaitForFinalSnapshot |->
        add_waiting_state("WaitForFinalSnapshot", "ShareSnapshot", "ErrorCleanup"),
     ShareSnapshot |-> add_state("ShareSnapshot", "Cleanup", "ErrorCleanup", <<>>),
     Cleanup |-> CleanupState,
     ErrorCleanup |-> ErrorCleanupState]

StartAt == "Initialize"

\* "shared_accounts": ["${ShareAccountsJoined}"] with ShareAccountsJoined the
\* accounts joined by '", "': the list of the accounts, and for no account the
\* list of one empty string
ShareAccountsJoined(ShareAccounts) ==
    IF ShareAccounts = <<>> THEN <<"">> ELSE ShareAccounts

\* Parameters.state of Initialize, with the stack parameters substituted.
InitializeState(p) ==
    [db_identifier |-> p.Db,
     vpc_id |-> "vpc-1",
     subnet_group_id |-> "subnet-group-1",
     security_group_id |-> "sg-1",
     new_snapshot |-> p.NewSnapshot,
     shared_accounts |-> ShareAccountsJoined(p.ShareAccounts),
     snapshot_format |-> p.SnapshotFormat,
     kms |-> p.KMS]

---------------------------------------------------------------------------
(* The Step Functions engine running the definition, one state at a time.  *)

Running(u) == execStatus[u] = "RUNNING"

\* ErrorEquals matching: States.ALL matches every error name.
Matches(ErrorEquals, error) ==
    "States.ALL" \in ErrorEquals \/ error \in ErrorEquals

\* The first entry of a Retry or Catch list that matches the error, as a
\* sequence of at most one entry.
FirstMatch(list, error) ==
    LET hits == {i \in DOMAIN list : Matches(list[i].ErrorEquals, error)}
    IN IF hits = {} THEN <<>>
       ELSE <<list[CHOOSE i \in hits : \A j \in hits : i <= j]>>

\* The execution moves to the state next with the payload output.
Enter(u, next, output) ==
    /\ pc' = [pc EXCEPT ![u] = next]
    /\ attempts' = [attempts EXCEPT ![u] = 0]
    /\ delay' = [delay EXCEPT ![u] = 0]
    /\ state' = [state EXCEPT ![u] = output]
    /\ trace' = [trace EXCEPT ![u] = Append(@, next)]
    /\ UNCHANGED execStatus

\* The execution ends as failed in the state it is in.
Abort(u) ==
    /\ execStatus' = [execStatus EXCEPT ![u] = "FAILED"]
    /\ UNCHANGED <<pc, attempts, delay, state, trace>>

\* The backoff rate of a retrier: the one it sets, or 2 (the rate Step
\* Functions applies to a retrier that sets none).
BackoffRate(retrier) ==
    IF "BackoffRate" \in DOMAIN retrier THEN retrier.BackoffRate ELSE 2

\* The seconds the engine waits before the n-th retry under a retrier.
RetryDelay(retrier, n) ==
    retrier.IntervalSeconds * BackoffRate(retrier) ^ (n - 1)

\* What the engine does with the result of the Task state pc[u]: go to Next,
\* retry, follow a catcher with the error as the payload, or fail.
TaskResult(u, error, output) ==
    LET def == StateMachine[pc[u]]
        retrier == FirstMatch(def.Retry, error)
        catcher == FirstMatch(def.Catch, error)
    IN IF error = "none" THEN Enter(u, def.Next, output)
       ELSE IF retrier # <<>> /\ attempts[u] < retrier[1].MaxAttempts
       THEN /\ attempts' = [attempts EXCEPT ![u] = @ + 1]
            /\ delay' = [delay EXCEPT ![u] = RetryDelay(retrier[1], attempts[u] + 1)]
            /\ UNCHANGED <<pc, state, trace, execStatus>>
       ELSE IF catcher # <<>>
       THEN Enter(u, catcher[1].Next, [Error |-> error, Cause |-> "cause"])
       ELSE Abort(u)

\* The service's contents and the history after an invocation by u.
Effects(u, o) ==
    /\ dbs' = o.rds.dbs
    /\ snapshots' = o.rds.snapshots
    /\ calls' = calls \cup
           {[op |-> c.op, id |-> c.id, source |-> c.source, Tags |-> c.Tags,
             uid |-> u, state_name |-> pc[u]] : c \in o.calls}
    /\ lastError' = [lastError EXCEPT ![u] = o.error]
    /\ lastStatus' = IF o.status = NoStatus THEN lastStatus
                      ELSE [lastStatus EXCEPT ![u] = o.status]

\* A Task state of add_state: invoke the Lambda function with uid, state_name
\* and state (for Initialize the fixed Parameters.state).
ExecuteLambdaTask(u) ==
    /\ Running(u)
    /\ StateMachine[pc[u]].Type = "Task"
    /\ StateMachine[pc[u]].Resource = "lambda"
    /\ LET input == IF pc[u] = "Initialize" THEN InitializeState(parameters)
                    ELSE state[u]
           event == [uid |-> u, state_name |-> pc[u], state |-> input]
       IN \E o \in handler(event, [dbs |-> dbs, snapshots |-> snapshots]) :
              /\ Effects(u, o)
              /\ TaskResult(u, o.error, o.state)
    /\ UNCHANGED parameters

\* A Task state of add_task_state: run the sanitizing task with the connection
\* parameters of $.db and wait until it succeeds or fails.
ExecuteSanitizeTask(u) ==
    /\ Running(u)
    /\ StateMachine[pc[u]].Type = "Task"
    /\ StateMachine[pc[u]].Resource = "ecs:runTask.sync"
    /\ LET def == StateMachine[pc[u]]
           missing == \E path \in def.Environment :
                          \/ path[1] \notin DOMAIN state[u]
                          \/ path[2] \notin DOMAIN state[u][path[1]]
       IN \E error \in IF missing THEN {"States.ParameterPathFailure"}
                       ELSE {"none", "States.TaskFailed"} :
              /\ lastError' = [lastError EXCEPT ![u] = error]
              /\ UNCHANGED lastStatus
              /\ calls' = IF error # "none" THEN calls
                          ELSE calls \cup
                               {[op |-> "runTask", id |-> state[u]["db"].host,
                                 source |-> <<>>, Tags |-> {}, uid |-> u,
                                 state_name |-> pc[u]]}
              /\ TaskResult(u, error, Put(state[u], def.ResultPath, "result"))
    /\ UNCHANGED <<dbs, snapshots, parameters>>

\* A Choice state: the first rule whose variable equals its string, else the
\* default; a variable missing from the payload fails the execution.
ExecuteChoice(u) ==
    /\ Running(u)
    /\ StateMachine[pc[u]].Type = "Choice"
    /\ LET def == StateMachine[pc[u]]
           hits == {i \in DOMAIN def.Choices :
                       /\ def.Choices[i].Variable \in DOMAIN state[u]
                       /\ state[u][def.Choices[i].Variable] = def.Choices[i].StringEquals}
       IN IF \E i \in DOMAIN def.Choices : def.Choices[i].Variable \notin DOMAIN state[u]
          THEN Abort(u)
          ELSE IF hits = {} THEN Enter(u, def.Default, state[u])
          ELSE Enter(u, def.Choices[CHOOSE i \in hits : \A j \in hits : i <= j].Next,
                     state[u])
    /\ UNCHANGED <<lastError, lastStatus, dbs, snapshots, calls, parameters>>

\* The Succeed state ends the execution as succeeded.
ExecuteSucceed(u) ==
    /\ Running(u)
    /\ StateMachine[pc[u]].Type = "Succeed"
    /\ execStatus' = [execStatus EXCEPT ![u] = "SUCCEEDED"]
    /\ UNCHANGED <<pc, attempts, delay, state, trace, lastError, lastStatus, dbs,
                   snapshots, calls, parameters>>

\* The Fail state ends the execution as failed.
ExecuteFail(u) ==
    /\ Running(u)
    /\ StateMachine[pc[u]].Type = "Fail"
    /\ execStatus' = [execStatus EXCEPT ![u] = "FAILED"]
    /\ UNCHANGED <<pc, attempts, delay, state, trace, lastError, lastStatus, dbs,
                   snapshots, calls, parameters>>

---------------------------------------------------------------------------
(* Initial states.                                                         *)

\* The execution id of a run that ended earlier and left resources behind.
StaleUid == "exec-0"

Snap1 == <<"s", "n", "a", "p", "-", "1">>
Snap2 == <<"s", "n", "a", "p", "-", "2">>
StaleSnap == SourceDb \o <<"-">> \o <<"0", "0", "0", "0", "0", "0", "0", "0", "c", "3">>
StaleDb == SourceDb \o <<"-">> \o <<"0", "0", "0", "0", "0", "0", "0", "0", "d", "4">>

SourceSnapshot(engine, time, Tags) ==
    [DBInstanceIdentifier |-> SourceDb, Engine |-> engine,
     SnapshotCreateTime |-> time, Tags |-> Tags, restore |-> {}]

\* The snapshots of the source database that exist when a run starts: none,
\* one, two taken at different times, two with the same creation time, or one
\* plus a temporary snapshot an earlier run left behind.
InitialSnapshots(engine) ==
    {EmptyDict,
     Put(EmptyDict, Snap1, SourceSnapshot(engine, 1, {})),
     Put(Put(EmptyDict, Snap1, SourceSnapshot(engine, 1, {})),
         Snap2, SourceSnapshot(engine, 2, {})),
     Put(Put(EmptyDict, Snap1, SourceSnapshot(engine, 1, {})),
         Snap2, SourceSnapshot(engine, 1, {})),
     Put(Put(EmptyDict, Snap1, SourceSnapshot(engine, 2, {})),
         StaleSnap, SourceSnapshot(engine, 1, _tags(StaleUid)))}

\* The source database, and a temporary database an earlier run left behind.
InitialDbs(engine) ==
    Put(Put(EmptyDict, SourceDb,
            [Engine |-> engine, DBSnapshotIdentifier |-> <<>>, Tags |-> {}]),
        StaleDb,
        [Engine |-> engine, DBSnapshotIdentifier |-> Snap1,
         Tags |-> _tags(StaleUid)])

StackParameters ==
    [Db : {SourceDb}, NewSnapshot : NewSnapshotValues,
     ShareAccounts : ShareAccountLists, SnapshotFormat : SnapshotFormats,
     KMS : KmsValues]

\* The executions of started run from StartAt; the others never start.
InitExecutions(started) ==
    /\ pc = [u \in UIDs |-> StartAt]
    /\ execStatus = [u \in UIDs |-> IF u \in started THEN "RUNNING" ELSE "IDLE"]
    /\ attempts = [u \in UIDs |-> 0]
    /\ delay = [u \in UIDs |-> 0]
    /\ state = [u \in UIDs |-> EmptyDict]
    /\ lastError = [u \in UIDs |-> "none"]
    /\ lastStatus = [u \in UIDs |-> NoStatus]
    /\ trace = [u \in UIDs |-> IF u \in started THEN <<StartAt>> ELSE <<>>]
    /\ calls = {}

Init ==
    /\ InitExecutions({"exec-1"})
    /\ parameters \in StackParameters
    /\ \E engine \in Engines :
           /\ dbs = InitialDbs(engine)
           /\ snapshots \in InitialSnapshots(engine)

Next ==
    \E u \in UIDs :
        \/ ExecuteLambdaTask(u)
        \/ ExecuteSanitizeTask(u)
        \/ ExecuteChoice(u)
        \/ ExecuteSucceed(u)
        \/ ExecuteFail(u)

Spec == Init /\ [][Next]_vars

\* The runs of a deployment that shares the snapshot with an account, against
\* a source database whose engine is supported ("postgres") or not
\* ("oracle-ee") and that has no snapshot or one.
InitFair ==
    /\ Init
    /\ parameters.ShareAccounts # <<>>
    /\ dbs[SourceDb].Engine \in {"postgres", "oracle-ee"}
    /\ Cardinality(DOMAIN snapshots) <= 1

\* The engine keeps running a started execution: a state that can run does.
FairSpec == InitFair /\ [][Next]_vars /\ WF_vars(Next)

---------------------------------------------------------------------------
(* Handlers invoked directly, without the state machine: the Lambda entry  *)
(* point called up to MaxInvocations times with the same event.            *)

\* The i-th temporary database and snapshot tagged with the caller's uid.
TempDb(i) == SourceDb \o <<"-">> \o str(i)
TempSnapshot(i) == <<"t", "m", "p", "-">> \o str(i)

\* The state names the entry point is called with.
DirectStates ==
    {"TakeSnapshot", "TakeFinalSnapshot", "CreateTempDatabase", "Cleanup",
     "ErrorCleanup"}

\* The payloads it is called with: empty, the error output a catcher passes
\* on, and a payload with every key the create handlers read.
DirectPayloads ==
    {EmptyDict,
     [Error |-> "ValueError", Cause |-> "cause"],
     [db_identifier |-> SourceDb,
      temp_snapshot_id |-> SourceDb \o <<"-">> \o <<"0", "0", "0", "0", "0", "0", "0", "0", "a", "1">>,
      temp_db_id |-> TempDb(1),
      target_snapshot_id |-> <<"d", "b", "-", "s", "a", "n", "i", "t", "i", "z", "e", "d", "-", "2", "0", "2", "6", "-", "1", "1", "-", "0", "5">>,
      snapshot_id |-> Snap1,
      security_group_id |-> "sg-1",
      subnet_group_id |-> "subnet-group-1"]}

\* d with the resources of ids added, each the record r.
RECURSIVE PutAll(_, _, _)
PutAll(d, ids, r) ==
    IF ids = {} THEN d
    ELSE LET i == CHOOSE x \in ids : TRUE
         IN PutAll(Put(d, i, r), ids \ {i}, r)

InitInvoke ==
    /\ \E s \in DirectStates : pc = [u \in UIDs |-> s]
    /\ execStatus = [u \in UIDs |-> IF u = "exec-1" THEN "DIRECT" ELSE "IDLE"]
    /\ attempts = [u \in UIDs |-> 0]
    /\ delay = [u \in UIDs |-> 0]
    /\ \E p \in DirectPayloads : state = [u \in UIDs |-> p]
    /\ lastError = [u \in UIDs |-> "none"]
    /\ lastStatus = [u \in UIDs |-> NoStatus]
    /\ trace = [u \in UIDs |-> <<>>]
    /\ calls = {}
    /\ parameters \in {p \in StackParameters :
                          /\ p.NewSnapshot = "Take new snapshot"
                          /\ p.ShareAccounts = <<>>
                          /\ p.SnapshotFormat = DefaultSnapshotFormat
                          /\ p.KMS = ""}
    /\ \E n \in 0..(PageSize + 1) :
           dbs = PutAll(InitialDbs("postgres"), {TempDb(i) : i \in 1..n},
                        [Engine |-> "postgres", DBSnapshotIdentifier |-> Snap1,
                         Tags |-> _tags("exec-1")])
    /\ \E m \in 0..(PageSize + 1) :
           snapshots =
               PutAll(Put(Put(EmptyDict, Snap1, SourceSnapshot("postgres", 2, {})),
                          StaleSnap, SourceSnapshot("postgres", 1, _tags(StaleUid))),
                      {TempSnapshot(i) : i \in 1..m},
                      SourceSnapshot("postgres", 3, _tags("exec-1")))

\* handler(event, context) called once more with the same event.
InvokeHandler(u) ==
    /\ execStatus[u] = "DIRECT"
    /\ attempts[u] < MaxInvocations
    /\ LET event == [uid |-> u, state_name |-> pc[u], state |-> state[u]]
       IN \E o \in handler(event, [dbs |-> dbs, snapshots |-> snapshots]) :
              Effects(u, o)
    /\ attempts' = [attempts EXCEPT ![u] = @ + 1]
    /\ UNCHANGED <<pc, execStatus, delay, state, trace, parameters>>

NextInvoke == \E u \in UIDs : InvokeHandler(u)

SpecInvoke == InitInvoke /\ [][NextInvoke]_vars

---------------------------------------------------------------------------
(* The wait handlers invoked directly on a resource in a known status.     *)

\* The state names that poll a snapshot, and those that poll a database.
SnapshotWaitStates == {"WaitForSnapshot", "WaitForFinalSnapshot"}
DatabaseWaitStates == {"WaitForTempDatabase", "WaitForPassword"}

\* The snapshot Snap1 and the database TempDb(1) are in the status s, the
\* database with or without pending modifications, when the handler of a
\* waiting state is called with a payload that names them.
InitWait ==
    /\ \E s \in SnapshotWaitStates \cup DatabaseWaitStates : pc = [u \in UIDs |-> s]
    /\ execStatus = [u \in UIDs |-> IF u = "exec-1" THEN "DIRECT" ELSE "IDLE"]
    /\ attempts = [u \in UIDs |-> 0]
    /\ delay = [u \in UIDs |-> 0]
    /\ state = [u \in UIDs |-> [snapshot_id |-> Snap1, temp_db_id |-> TempDb(1)]]
    /\ lastError = [u \in UIDs |-> "none"]
    /\ lastStatus = [u \in UIDs |-> NoStatus]
    /\ trace = [u \in UIDs |-> <<>>]
    /\ calls = {}
    /\ parameters \in {p \in StackParameters :
                          /\ p.NewSnapshot = "Take new snapshot"
                          /\ p.ShareAccounts = <<>>
                          /\ p.SnapshotFormat = DefaultSnapshotFormat
                          /\ p.KMS = ""}
    /\ \E s \in StatusStrings : \E pending \in BOOLEAN :
           /\ snapshots =
                  Put(EmptyDict, Snap1,
                      Put(SourceSnapshot("postgres", 1, {}), "Status", s))
           /\ dbs = Put(InitialDbs("postgres"), TempDb(1),
                        [Engine |-> "postgres", DBSnapshotIdentifier |-> Snap1,
                         Tags |-> _tags("exec-1"), DBInstanceStatus |-> s,
                         PendingModifiedValues |-> pending])

SpecWait == InitWait /\ [][NextInvoke]_vars

---------------------------------------------------------------------------
(* find_latest_snapshot invoked directly on a source database that has up  *)
(* to MaxSnapshots snapshots.                                              *)

\* The identifier of the i-th snapshot of the source database.
SnapId(i) == <<"s", "n", "a", "p", "-">> \o str(i)

\* A snapshot of another database, newer than every snapshot of the source.
OtherDb == <<"o", "t", "h", "e", "r">>
OtherSnap == OtherDb \o <<"-">> \o <<"s", "n", "a", "p">>

\* Any number of snapshots of the source database up to MaxSnapshots, with
\* any creation times (equal ones too), with or without the other snapshot.
InitFind ==
    /\ pc = [u \in UIDs |-> "FindLatestSnapshot"]
    /\ execStatus = [u \in UIDs |-> IF u = "exec-1" THEN "DIRECT" ELSE "IDLE"]
    /\ attempts = [u \in UIDs |-> 0]
    /\ delay = [u \in UIDs |-> 0]
    /\ state = [u \in UIDs |-> [db_identifier |-> SourceDb]]
    /\ lastError = [u \in UIDs |-> "none"]
    /\ lastStatus = [u \in UIDs |-> NoStatus]
    /\ trace = [u \in UIDs |-> <<>>]
    /\ calls = {}
    /\ parameters \in {p \in StackParameters :
                          /\ p.NewSnapshot = "Use latest existing snapshot"
                          /\ p.ShareAccounts = <<>>
                          /\ p.SnapshotFormat = DefaultSnapshotFormat
                          /\ p.KMS = ""}
    /\ dbs = InitialDbs("postgres")
    /\ \E n \in 0..MaxSnapshots : \E time \in [1..n -> 1..MaxSnapshots] :
       \E other \in BOOLEAN :
           LET own == [id \in {SnapId(i) : i \in 1..n} |->
                          SourceSnapshot("postgres",
                              time[CHOOSE i \in 1..n : SnapId(i) = id], {})]
           IN snapshots =
                  IF other
                  THEN Put(own, OtherSnap,
                           [SourceSnapshot("postgres", MaxSnapshots + 1, {})
                               EXCEPT !.DBInstanceIdentifier = OtherDb])
                  ELSE own

\* handler(event, context) called with the payload the previous call returned
\* (the first call with the initial payload); a call that raises returns none.
InvokeChained(u) ==
    /\ execStatus[u] = "DIRECT"
    /\ attempts[u] < MaxInvocations
    /\ LET event == [uid |-> u, state_name |-> pc[u], state |-> state[u]]
       IN \E o \in handler(event, [dbs |-> dbs, snapshots |-> snapshots]) :
              /\ Effects(u, o)
              /\ state' = [state EXCEPT ![u] = IF o.error = "none" THEN o.state ELSE @]
    /\ attempts' = [attempts EXCEPT ![u] = @ + 1]
    /\ UNCHANGED <<pc, execStatus, delay, trace, parameters>>

NextChained == \E u \in UIDs : InvokeChained(u)

SpecFind == InitFind /\ [][NextChained]_vars

---------------------------------------------------------------------------
(* initialize invoked directly with the snapshot formats and database      *)
(* identifiers a deployment can be given.                                  *)

\* A database identifier of 61 characters (RDS allows up to 63).
LongDb == <<"p", "r", "o", "d", "u", "c", "t", "i", "o", "n", "-", "c", "u", "s", "t", "o", "m", "e", "r", "-", "d", "a", "t", "a", "b", "a", "s", "e", "-", "p", "r", "i", "m", "a", "r", "y", "-", "r", "e", "p", "l", "i", "c", "a", "-", "e", "u", "-", "w", "e", "s", "t", "-", "1", "-", "b", "l", "u", "e", "0", "1">>

\* Snapshot formats an operator can supply, next to the default:
\* "{database_identifier}-", "{database_identifier}_sanitized",
\* "{database_identifier}-sanitized-{date:%Y-%m-%d}" (no precision),
\* "{database_identifier:.42}--{date:%Y}", "1-{database_identifier}", "a".
DirectSnapshotFormats ==
    {DefaultSnapshotFormat,
     HyphenSnapshotFormat,
     <<DbField(-1), Literal(<<"_", "s", "a", "n", "i", "t", "i", "z", "e", "d">>)>>,
     <<DbField(-1), Literal(<<"-", "s", "a", "n", "i", "t", "i", "z", "e", "d", "-">>), DateField(<<"%Y", "-", "%m", "-", "%d">>)>>,
     <<DbField(42), Literal(<<"-", "-">>), DateField(<<"%Y">>)>>,
     <<Literal(<<"1", "-">>), DbField(-1)>>,
     <<Literal(<<"a">>)>>}

\* Initialize is called with Parameters.state of a stack whose Db is the
\* short or the long identifier and whose SnapshotFormat is one of the above.
InitInitialize ==
    /\ pc = [u \in UIDs |-> "Initialize"]
    /\ execStatus = [u \in UIDs |-> IF u = "exec-1" THEN "DIRECT" ELSE "IDLE"]
    /\ attempts = [u \in UIDs |-> 0]
    /\ delay = [u \in UIDs |-> 0]
    /\ parameters \in [Db : {SourceDb, LongDb},
                        NewSnapshot : {"Use latest existing snapshot"},
                        ShareAccounts : {<<>>},
                        SnapshotFormat : DirectSnapshotFormats,
                        KMS : {""}]
    /\ state = [u \in UIDs |-> InitializeState(parameters)]
    /\ lastError = [u \in UIDs |-> "none"]
    /\ lastStatus = [u \in UIDs |-> NoStatus]
    /\ trace = [u \in UIDs |-> <<>>]
    /\ calls = {}
    /\ dbs = Put(InitialDbs("postgres"), LongDb,
                 [Engine |-> "postgres", DBSnapshotIdentifier |-> <<>>, Tags |-> {}])
    /\ snapshots = EmptyDict

SpecInitialize == InitInitialize /\ [][NextChained]_vars

---------------------------------------------------------------------------
(* Two executions of the state machine of one stack, started together.     *)

\* Both executions read the same stack parameters and work on the same source
\* database, its one existing snapshot and what an earlier run left behind.
InitConcurrent ==
    /\ InitExecutions(UIDs)
    /\ parameters \in [Db : {SourceDb}, NewSnapshot : NewSnapshotValues,
                        ShareAccounts : {<<"111122223333">>},
                        SnapshotFormat : {DefaultSnapshotFormat},
                        KMS : {""}]
    /\ dbs = InitialDbs("postgres")
    /\ snapshots = Put(EmptyDict, Snap1, SourceSnapshot("postgres", 1, {}))

\* One of the executions runs its current state; the engine interleaves the
\* states of the two freely.  A state is followed through its first
\* MaxRetriesFollowed retries.
NextConcurrent ==
    /\ Next
    /\ \A u \in UIDs : attempts'[u] <= MaxRetriesFollowed

SpecConcurrent == InitConcurrent /\ [][NextConcurrent]_vars

---------------------------------------------------------------------------
(* Properties.                                                             *)

Range(q) == {q[i] : i \in DOMAIN q}

IsPrefix(p, q) == Len(p) <= Len(q) /\ SubSeq(q, 1, Len(p)) = p

\* The ownership tag of the execution u.
UidTag(u) == [Key |-> "RDS-sanitized-snapshots-temp", Value |-> u]

\* The calls of execution u that returned.
CallsOf(u) == {c \in calls : c.uid = u}

SanitizeStates == {"SanitizePostgres", "SanitizeMySQL", "SanitizeMariaDB"}
CleanupStateNames == {"Cleanup", "ErrorCleanup"}
DeleteOps == {"delete_db_instance", "delete_db_snapshot"}

\* The execution u made a move in this step.
Moved(u) ==
    \/ pc'[u] # pc[u]
    \/ attempts'[u] # attempts[u]
    \/ execStatus'[u] # execStatus[u]

\* C1: TakeFinalSnapshot is entered only after a Sanitize state of the same
\* execution, whose job succeeded; the snapshot it creates is taken from the
\* temporary database this execution restored and sanitized, never from the
\* source database; without a successful sanitize job the execution creates no
\* final snapshot.
C1_FinalSnapshotAfterSanitize ==
    \A u \in UIDs :
        /\ \A j \in DOMAIN trace[u] :
               trace[u][j] = "TakeFinalSnapshot" =>
                   /\ j > 1 /\ trace[u][j - 1] \in SanitizeStates
                   /\ \E s \in CallsOf(u) : s.op = "runTask"
                                            /\ s.state_name = trace[u][j - 1]
        /\ \A c \in CallsOf(u) :
               c.state_name = "TakeFinalSnapshot" =>
                   /\ c.op = "create_db_snapshot"
                   /\ c.source # SourceDb
                   /\ \E r \in CallsOf(u) :
                          /\ r.op = "restore_db_instance_from_db_snapshot"
                          /\ r.state_name = "CreateTempDatabase"
                          /\ r.id = c.source
                   /\ \E s \in CallsOf(u) : s.op = "runTask" /\ s.id = c.source

C1_Witness ==
    \E u \in UIDs : \E c \in CallsOf(u) :
        c.state_name = "TakeFinalSnapshot" /\ c.op = "create_db_snapshot"

\* C2: in the Success state and in the Failure state, every temporary snapshot
\* TakeSnapshot created and every temporary database CreateTempDatabase
\* restored in this execution has had a delete call issued by Cleanup or
\* ErrorCleanup.
C2_EphemeralResourcesDeleted ==
    \A u \in UIDs :
        pc[u] \in {"Success", "Failure"} =>
            \A c \in CallsOf(u) :
                c.state_name \in {"TakeSnapshot", "CreateTempDatabase"} =>
                    \E d \in CallsOf(u) :
                        /\ d.op \in DeleteOps
                        /\ d.state_name \in CleanupStateNames
                        /\ d.id = c.id

C2_Witness ==
    \E u \in UIDs :
        /\ pc[u] = "Failure"
        /\ \E c \in CallsOf(u) : c.state_name = "CreateTempDatabase"
        /\ \E d \in CallsOf(u) : d.op = "delete_db_instance"

\* C3 (as claimed): one successful run of the cleanup handler with uid U
\* deletes every database and snapshot tagged with U, however many there are,
\* and nothing that does not carry the tag.
C3_CleanupDeletesAllTagged ==
    \A u \in UIDs :
        (/\ execStatus[u] = "DIRECT"
         /\ pc[u] \in CleanupStateNames
         /\ attempts[u] = 1
         /\ lastError[u] = "none") =>
            /\ Tagged([dbs |-> dbs, snapshots |-> snapshots], "rds:db",
                      UidTag(u).Key, u) = {}
            /\ Tagged([dbs |-> dbs, snapshots |-> snapshots], "rds:snapshot",
                      UidTag(u).Key, u) = {}
            /\ \A c \in CallsOf(u) : c.op \in DeleteOps /\ UidTag(u) \in c.Tags

\* The states of the run with engine "postgres", NewSnapshot "Use latest
\* existing snapshot" and an empty KMS in which every handler succeeds.
HappyPath ==
    <<"Initialize", "ChooseSnapshot", "FindLatestSnapshot", "ShouldEncrypt",
      "CreateTempDatabase", "WaitForTempDatabase", "SetTempPassword",
      "WaitForPassword", "ChooseSanitizer", "SanitizePostgres",
      "TakeFinalSnapshot", "WaitForFinalSnapshot", "ShareSnapshot", "Cleanup",
      "Success">>

PostgresLatestNoKms ==
    /\ dbs[SourceDb].Engine = "postgres"
    /\ parameters.NewSnapshot = "Use latest existing snapshot"
    /\ parameters.KMS = ""

\* C4: with engine "postgres", "Use latest existing snapshot" and an empty
\* kms, as long as no handler has failed the states visited are a prefix of
\* Initialize, ChooseSnapshot, FindLatestSnapshot, ShouldEncrypt,
\* CreateTempDatabase, ..., Cleanup, Success, so a run that reaches Success
\* visited exactly these, and Encrypt and WaitForEncrypt are not among them.
C4_HappyPath ==
    \A u \in UIDs :
        (Running(u) \/ execStatus[u] = "SUCCEEDED") /\ PostgresLatestNoKms =>
            /\ "ErrorCleanup" \notin Range(trace[u]) => IsPrefix(trace[u], HappyPath)
            /\ pc[u] = "Success" => trace[u] = HappyPath
            /\ pc[u] = "Success" =>
                   {"Encrypt", "WaitForEncrypt"} \cap Range(trace[u]) = {}

C4_Witness ==
    \E u \in UIDs :
        execStatus[u] = "SUCCEEDED" /\ pc[u] = "Success" /\ PostgresLatestNoKms

\* C5: when WaitForTempDatabase reads the status "failed" the state is not
\* retried and ErrorCleanup is the next state; the invocation of ErrorCleanup
\* that returns leaves no database and no snapshot tagged with the execution
\* id and is followed by Failure, where the temporary resources created
\* earlier in the run have all been deleted.
C5_FailedStatusGoesToErrorCleanup ==
    [][\A u \in UIDs :
          /\ (/\ Running(u) /\ pc[u] = "WaitForTempDatabase" /\ Moved(u)
              /\ lastStatus'[u] = StFailed) =>
                 /\ pc'[u] = "ErrorCleanup"
                 /\ attempts'[u] = 0
                 /\ execStatus'[u] = "RUNNING"
          /\ (Running(u) /\ pc[u] = "ErrorCleanup" /\ pc'[u] # "ErrorCleanup") =>
                 /\ pc'[u] = "Failure"
                 /\ Tagged([dbs |-> dbs', snapshots |-> snapshots'], "rds:db",
                           UidTag(u).Key, u) = {}
                 /\ Tagged([dbs |-> dbs', snapshots |-> snapshots'],
                           "rds:snapshot", UidTag(u).Key, u) = {}
                 /\ \A c \in CallsOf(u) :
                        c.state_name \in {"TakeSnapshot", "CreateTempDatabase"} =>
                            \E d \in calls' : /\ d.uid = u /\ d.op \in DeleteOps
                                              /\ d.id = c.id]_vars

C5_Witness ==
    \E u \in UIDs :
        /\ pc[u] = "Failure"
        /\ lastStatus[u] = StFailed
        /\ Len(trace[u]) >= 3
        /\ trace[u][Len(trace[u]) - 2] = "WaitForTempDatabase"
        /\ \E d \in CallsOf(u) : d.op = "delete_db_instance"
                                 /\ d.state_name = "ErrorCleanup"

\* The Task states other than Cleanup and ErrorCleanup.
GuardedTasks ==
    {"Initialize", "TakeSnapshot", "FindLatestSnapshot", "Encrypt",
     "CreateTempDatabase", "SetTempPassword", "SanitizePostgres",
     "SanitizeMySQL", "SanitizeMariaDB", "TakeFinalSnapshot", "ShareSnapshot",
     "WaitForSnapshot", "WaitForEncrypt", "WaitForTempDatabase",
     "WaitForPassword", "WaitForFinalSnapshot"}

\* C6: every Task state other than Cleanup and ErrorCleanup has a catcher for
\* States.ALL whose target is ErrorCleanup, and an error in one of these
\* states that is not retried makes ErrorCleanup the next state and leaves the
\* execution running.
C6_ErrorsGoToErrorCleanup ==
    [][/\ \A s \in GuardedTasks :
              /\ StateMachine[s].Type = "Task"
              /\ Len(StateMachine[s].Catch) = 1
              /\ StateMachine[s].Catch[1] =
                     [ErrorEquals |-> {"States.ALL"}, Next |-> "ErrorCleanup"]
       /\ {s \in DOMAIN StateMachine : StateMachine[s].Type = "Task"}
              = GuardedTasks \cup CleanupStateNames
       /\ \A u \in UIDs :
              (/\ Running(u) /\ pc[u] \in GuardedTasks /\ Moved(u)
               /\ lastError'[u] # "none"
               /\ attempts'[u] # attempts[u] + 1) =>
                  /\ pc'[u] = "ErrorCleanup"
                  /\ execStatus'[u] = "RUNNING"]_vars

C6_Witness ==
    \E u \in UIDs :
        /\ Running(u) /\ pc[u] = "ErrorCleanup" /\ attempts[u] = 0
        /\ lastError[u] \notin {"none", "NotReady"}
        /\ Len(trace[u]) >= 2
        /\ trace[u][Len(trace[u]) - 1] \in GuardedTasks

Terminated(u) == execStatus[u] \in {"SUCCEEDED", "FAILED"}

\* C7 (as claimed): an execution that has terminated is in the Success state
\* or in the Failure state.
C7_TerminatesInSuccessOrFailure ==
    \A u \in UIDs : Terminated(u) => pc[u] \in {"Success", "Failure"}

\* C7 (amended): every started execution terminates; it ends in the Success
\* state, in the Failure state, or in Cleanup or ErrorCleanup when the handler
\* has failed with the retries of that state used up.
C7_Terminates ==
    /\ <>[](\A u \in UIDs : execStatus[u] # "IDLE" => Terminated(u))
    /\ [](\A u \in UIDs :
              Terminated(u) =>
                  \/ pc[u] = "Success" /\ execStatus[u] = "SUCCEEDED"
                  \/ pc[u] = "Failure" /\ execStatus[u] = "FAILED"
                  \/ /\ pc[u] \in CleanupStateNames
                     /\ execStatus[u] = "FAILED"
                     /\ lastError[u] # "none"
                     /\ attempts[u] = StateMachine[pc[u]].Retry[1].MaxAttempts)

C7_Witness ==
    \E u \in UIDs :
        /\ execStatus[u] = "FAILED" /\ pc[u] = "Cleanup"
        /\ attempts[u] = StateMachine["Cleanup"].Retry[1].MaxAttempts

\* C8: an execution is in Failure only after ErrorCleanup, whose handler
\* returned; it is in Success only after Cleanup, whose handler returned, and
\* then ErrorCleanup was never entered.
C8_CleanupBeforeTerminalState ==
    \A u \in UIDs :
        /\ pc[u] = "Failure" =>
               /\ Len(trace[u]) >= 2
               /\ trace[u][Len(trace[u]) - 1] = "ErrorCleanup"
               /\ lastError[u] = "none"
        /\ pc[u] = "Success" =>
               /\ Len(trace[u]) >= 2
               /\ trace[u][Len(trace[u]) - 1] = "Cleanup"
               /\ "ErrorCleanup" \notin Range(trace[u])
               /\ lastError[u] = "none"

C8_Witness ==
    \E u \in UIDs :
        /\ pc[u] = "Success" /\ "Cleanup" \in Range(trace[u])
        /\ dbs[SourceDb].Engine = "mysql"

CreateOps == {"create_db_snapshot", "restore_db_instance_from_db_snapshot"}

\* The resource a create call that returned has made, in the service.
Created(c, d, s) == IF c.op = "create_db_snapshot" THEN s[c.id] ELSE d[c.id]

\* C9 (as claimed): every resource TakeSnapshot, CreateTempDatabase or
\* TakeFinalSnapshot creates carries the ownership tag of the execution when
\* the create call returns.
C9_EveryCreatedResourceTagged ==
    [][\A c \in calls' \ calls :
          c.op \in CreateOps => UidTag(c.uid) \in Created(c, dbs', snapshots').Tags]_vars

\* C9 (amended): the snapshot TakeSnapshot creates and the database
\* CreateTempDatabase restores carry the ownership tag of the execution when
\* the create call returns; the snapshot TakeFinalSnapshot creates carries
\* the tag RDS-sanitized-snapshots=yes only, and no ownership tag.
C9_TemporaryResourcesTagged ==
    [][\A c \in calls' \ calls :
          c.op \in CreateOps =>
              IF c.state_name = "TakeFinalSnapshot"
              THEN Created(c, dbs', snapshots').Tags =
                       {[Key |-> "RDS-sanitized-snapshots", Value |-> "yes"]}
              ELSE /\ UidTag(c.uid) \in Created(c, dbs', snapshots').Tags
                   /\ [Key |-> "RDS-sanitized-snapshots", Value |-> "yes"]
                          \in Created(c, dbs', snapshots').Tags]_vars

C9_Witness ==
    \E u \in UIDs : \E c \in CallsOf(u) :
        /\ c.state_name = "CreateTempDatabase"
        /\ c.id \in DOMAIN dbs
        /\ UidTag(u) \in dbs[c.id].Tags

\* C10 (as claimed): when the first call of TakeSnapshot has created the
\* snapshot, a second call with the same payload does not fail because the
\* snapshot already exists.
C10_TakeSnapshotIdempotent ==
    \A u \in UIDs :
        (/\ execStatus[u] = "DIRECT"
         /\ pc[u] = "TakeSnapshot"
         /\ attempts[u] = 2
         /\ \E c \in CallsOf(u) : c.op = "create_db_snapshot"
                                  /\ c.id = state[u]["temp_snapshot_id"]) =>
            lastError[u] # "DBSnapshotAlreadyExistsFault"

\* The status the polled resource of the direct invocation by u is in.
PolledStatus(u) ==
    IF pc[u] \in SnapshotWaitStates THEN snapshots[state[u]["snapshot_id"]].Status
    ELSE dbs[state[u]["temp_db_id"]].DBInstanceStatus

\* The direct invocation of a wait handler by u in this step read the status
\* of its resource (the describe call did not fail).
Polled(u, waitStates) ==
    /\ execStatus[u] = "DIRECT"
    /\ pc[u] \in waitStates
    /\ attempts'[u] = attempts[u] + 1
    /\ lastError'[u] # "ClientError"

HasBadPattern(s) == \E p \in BadStatusPatterns : Contains(s, p)

\* C11: the snapshot wait handler puts every status string in exactly one of
\* three classes: "available" returns; a status that contains stop, delet,
\* fail, incompatible, inaccessible or error raises a fatal error (ValueError,
\* not NotReady); every other status raises NotReady.
C11_SnapshotStatusClassified ==
    [][\A u \in UIDs :
          Polled(u, SnapshotWaitStates) =>
              LET s == PolledStatus(u)
              IN /\ lastStatus'[u] = s
                 /\ lastError'[u] \in {"none", "ValueError", "NotReady"}
                 /\ lastError'[u] = "none" <=> s = StAvailable
                 /\ lastError'[u] = "ValueError" <=>
                        (s # StAvailable /\ HasBadPattern(s))
                 /\ lastError'[u] = "NotReady" <=>
                        (s # StAvailable /\ ~HasBadPattern(s))]_vars

C11_Witness ==
    \E u \in UIDs :
        /\ execStatus[u] = "DIRECT" /\ pc[u] = "WaitForSnapshot"
        /\ lastStatus[u] = <<"i", "n", "a", "c", "c", "e", "s", "s", "i", "b", "l", "e", "-", "e", "n", "c", "r", "y", "p", "t", "i", "o", "n", "-", "c", "r", "e", "d", "e", "n", "t", "i", "a", "l", "s">>
        /\ lastError[u] = "ValueError"

SnapshotsOfSource ==
    {i \in DOMAIN snapshots : snapshots[i].DBInstanceIdentifier = SourceDb}

DistinctCreateTimes(ids) ==
    \A i, j \in ids :
        i # j => snapshots[i].SnapshotCreateTime # snapshots[j].SnapshotCreateTime

\* C13: when the source database has at least one snapshot and the creation
\* times of its snapshots differ pairwise, then in whatever order the pages
\* list them FindLatestSnapshot returns, with snapshot_id the identifier of
\* the snapshot of the source database whose creation time is the greatest.
C13_FindLatestSnapshotIsMax ==
    [][\A u \in UIDs :
          (/\ execStatus[u] = "DIRECT"
           /\ pc[u] = "FindLatestSnapshot"
           /\ attempts'[u] = attempts[u] + 1
           /\ lastError'[u] # "ClientError"
           /\ SnapshotsOfSource # {}
           /\ DistinctCreateTimes(SnapshotsOfSource)) =>
              /\ lastError'[u] = "none"
              /\ "snapshot_id" \in DOMAIN state'[u]
              /\ state'[u]["snapshot_id"] \in SnapshotsOfSource
              /\ \A i \in SnapshotsOfSource :
                     snapshots[i].SnapshotCreateTime <=
                         snapshots[state'[u]["snapshot_id"]].SnapshotCreateTime]_vars

C13_Witness ==
    \E u \in UIDs :
        /\ execStatus[u] = "DIRECT" /\ pc[u] = "FindLatestSnapshot"
        /\ lastError[u] = "none" /\ attempts[u] >= 1
        /\ Cardinality(SnapshotsOfSource) = MaxSnapshots
        /\ OtherSnap \in DOMAIN snapshots
        /\ "snapshot_id" \in DOMAIN state[u]
        /\ state[u]["snapshot_id"] = SnapId(2)

\* ^[a-zA-Z][a-zA-Z0-9-]{1,62}$ on the whole of t
FullMatch(t) ==
    /\ Len(t) >= 2 /\ Len(t) <= 63
    /\ t[1] \in Letters
    /\ \A i \in 2..Len(t) : t[i] \in Letters \cup Digits \cup {"-"}

ValidSnapshotName(t) ==
    /\ FullMatch(t)
    /\ ~Contains(t, <<"-", "-">>)
    /\ t[Len(t)] # "-"

\* C14 (as claimed): Initialize raises for every rendered target snapshot
\* name that does not match ^[a-zA-Z][a-zA-Z0-9-]{1,62}$ as a whole, contains
\* "--" or ends in "-"; so a target_snapshot_id that Initialize returned is a
\* valid name.
C14_InvalidNameRejected ==
    \A u \in UIDs :
        (/\ execStatus[u] = "DIRECT"
         /\ pc[u] = "Initialize"
         /\ "target_snapshot_id" \in DOMAIN state[u]) =>
            ValidSnapshotName(state[u]["target_snapshot_id"])

\* The errors a call to the RDS or tagging API can raise.
ApiErrors ==
    {"ClientError", "DBInstanceNotFoundFault", "DBSnapshotNotFoundFault",
     "DBInstanceAlreadyExistsFault", "DBSnapshotAlreadyExistsFault",
     "InvalidParameterValue"}

\* C15 (as claimed): with a KMS key the execution enters Encrypt, and unless a
\* provisioning call fails the Encrypt handler does its work and
\* WaitForEncrypt is the next state.
C15_EncryptThenWaitForEncrypt ==
    [][\A u \in UIDs :
          (/\ Running(u) /\ pc[u] = "Encrypt" /\ Moved(u)
           /\ lastError'[u] \notin ApiErrors) =>
              /\ parameters.KMS # ""
              /\ lastError'[u] = "none"
              /\ pc'[u] = "WaitForEncrypt"]_vars

\* C16 (as claimed): with "Take new snapshot" the execution enters
\* TakeSnapshot, and unless a provisioning call fails the handler has issued
\* the create call for the temporary snapshot identifier Initialize derived
\* and WaitForSnapshot is the next state.
C16_TakeSnapshotCreatesTemporarySnapshot ==
    [][\A u \in UIDs :
          (/\ Running(u) /\ pc[u] = "TakeSnapshot" /\ Moved(u)
           /\ lastError'[u] \notin ApiErrors) =>
              /\ parameters.NewSnapshot = "Take new snapshot"
              /\ pc'[u] = "WaitForSnapshot"
              /\ \E c \in calls' \ calls :
                     /\ c.op = "create_db_snapshot" /\ c.uid = u
                     /\ c.id = state[u]["temporary_snapshot_id"]]_vars

\* C17 (as claimed): when the ShareAccounts parameter is left empty,
\* ShareSnapshot issues no provisioning call and Cleanup is the next state
\* (stated for the invocations in which the service is reachable, so that
\* only a call that should not have been made can make it false).
C17_NoShareAccountsNoCall ==
    [][\A u \in UIDs :
          (/\ Running(u) /\ pc[u] = "ShareSnapshot" /\ Moved(u)
           /\ parameters.ShareAccounts = <<>>
           /\ lastError'[u] # "ClientError") =>
              /\ lastError'[u] = "none"
              /\ calls' = calls
              /\ pc'[u] = "Cleanup"]_vars

WaitingStates ==
    {"WaitForSnapshot", "WaitForEncrypt", "WaitForTempDatabase",
     "WaitForPassword", "WaitForFinalSnapshot"}

\* C18: each of the five waiting states has one retrier, for NotReady only,
\* with interval 60, backoff rate 1 and 300 attempts.  A NotReady in a waiting
\* state that has been retried fewer than 300 times is retried after 60
\* seconds; any other error, and a NotReady after 300 retries, makes
\* ErrorCleanup the next state.
C18_WaitingStatesRetryNotReady ==
    [][/\ \A s \in WaitingStates :
              /\ Len(StateMachine[s].Retry) = 1
              /\ StateMachine[s].Retry[1].ErrorEquals = {"NotReady"}
              /\ StateMachine[s].Retry[1].IntervalSeconds = 60
              /\ StateMachine[s].Retry[1].MaxAttempts = 300
              /\ BackoffRate(StateMachine[s].Retry[1]) = 1
       /\ \A u \in UIDs :
              (/\ Running(u) /\ pc[u] \in WaitingStates /\ Moved(u)
               /\ lastError'[u] # "none") =>
                  /\ execStatus'[u] = "RUNNING"
                  /\ IF lastError'[u] = "NotReady" /\ attempts[u] < 300
                     THEN /\ pc'[u] = pc[u]
                          /\ attempts'[u] = attempts[u] + 1
                          /\ delay'[u] = 60
                     ELSE /\ pc'[u] = "ErrorCleanup"
                          /\ attempts'[u] = 0]_vars

C18_Witness ==
    \E u \in UIDs :
        /\ Running(u) /\ pc[u] = "ErrorCleanup" /\ attempts[u] = 0
        /\ lastError[u] = "NotReady"
        /\ Len(trace[u]) >= 2
        /\ trace[u][Len(trace[u]) - 1] = "WaitForFinalSnapshot"

PayloadOnlyStates ==
    {"Initialize", "FindLatestSnapshot", "TakeSnapshot", "WaitForSnapshot",
     "CreateTempDatabase", "WaitForTempDatabase", "WaitForPassword",
     "TakeFinalSnapshot", "WaitForFinalSnapshot", "ShareSnapshot", "Cleanup",
     "ErrorCleanup"}

\* C20 (as claimed): no handler fails because a payload field it reads is
\* missing: none of these states raises KeyError.
C20_NoMissingPayloadField ==
    [][\A u \in UIDs :
          (Running(u) /\ pc[u] \in PayloadOnlyStates /\ Moved(u)) =>
              lastError'[u] # "KeyError"]_vars

\* Whether the polled database of the direct invocation by u has pending
\* modifications.
PolledPending(u) == dbs[state[u]["temp_db_id"]]["PendingModifiedValues"]

\* C21: under the state name WaitForTempDatabase and under WaitForPassword
\* alike, the database wait handler returns exactly when the status is
\* "available" and nothing is pending; "available" with pending modifications
\* raises NotReady, as does every other status without a bad pattern, and a
\* status with a bad pattern raises ValueError.
C21_DatabaseReadyWhenAvailableAndNothingPending ==
    [][\A u \in UIDs :
          Polled(u, DatabaseWaitStates) =>
              LET s == PolledStatus(u)
                  ready == s = StAvailable /\ ~PolledPending(u)
              IN /\ lastStatus'[u] = s
                 /\ lastError'[u] =
                        IF ready THEN "none"
                        ELSE IF HasBadPattern(s) THEN "ValueError"
                        ELSE "NotReady"
                 /\ (s = StAvailable /\ PolledPending(u)) =>
                        lastError'[u] = "NotReady"]_vars

C21_Witness ==
    \E u \in UIDs :
        /\ execStatus[u] = "DIRECT" /\ pc[u] = "WaitForPassword"
        /\ attempts[u] >= 1
        /\ lastStatus[u] = StAvailable /\ PolledPending(u)
        /\ lastError[u] = "NotReady"

\* The state a Choice state with the given rules goes to for the value v.
ChoiceTarget(def, v) ==
    IF \E i \in DOMAIN def.Choices : def.Choices[i].StringEquals = v
    THEN def.Choices[CHOOSE i \in DOMAIN def.Choices :
                         /\ def.Choices[i].StringEquals = v
                         /\ \A j \in 1..(i - 1) : def.Choices[j].StringEquals # v].Next
    ELSE "ErrorCleanup"

\* C22: ChooseSnapshot and ChooseSanitizer compare their field with exact
\* strings and default to ErrorCleanup: "Take new snapshot" and "Use latest
\* existing snapshot", and "postgres", "mysql" and "mariadb", go to their own
\* state and every other value goes to ErrorCleanup.  When ChooseSanitizer
\* has sent the execution to ErrorCleanup and the handler there returns, the
\* execution enters Failure with the temporary database of the run deleted
\* and with no Sanitize state and no TakeFinalSnapshot in its history.
C22_ChoiceDefaultsToErrorCleanup ==
    [][/\ StateMachine["ChooseSnapshot"].Default = "ErrorCleanup"
       /\ StateMachine["ChooseSanitizer"].Default = "ErrorCleanup"
       /\ {<<c.Variable, c.StringEquals, c.Next>> :
              c \in Range(StateMachine["ChooseSnapshot"].Choices)} =
          {<<"new_snapshot", "Take new snapshot", "TakeSnapshot">>,
           <<"new_snapshot", "Use latest existing snapshot", "FindLatestSnapshot">>}
       /\ {<<c.Variable, c.StringEquals, c.Next>> :
              c \in Range(StateMachine["ChooseSanitizer"].Choices)} =
          {<<"engine", "postgres", "SanitizePostgres">>,
           <<"engine", "mysql", "SanitizeMySQL">>,
           <<"engine", "mariadb", "SanitizeMariaDB">>}
       /\ \A u \in UIDs :
              /\ (Running(u) /\ pc[u] = "ChooseSnapshot" /\ Moved(u)) =>
                     pc'[u] = ChoiceTarget(StateMachine["ChooseSnapshot"],
                                           state[u]["new_snapshot"])
              /\ (Running(u) /\ pc[u] = "ChooseSanitizer" /\ Moved(u)) =>
                     /\ pc'[u] = ChoiceTarget(StateMachine["ChooseSanitizer"],
                                              state[u]["engine"])
                     /\ state[u]["engine"] \notin {"postgres", "mysql", "mariadb"}
                            => pc'[u] = "ErrorCleanup"
              /\ (/\ Running(u) /\ pc[u] = "ErrorCleanup" /\ pc'[u] # pc[u]
                  /\ Len(trace[u]) >= 2
                  /\ trace[u][Len(trace[u]) - 1] = "ChooseSanitizer") =>
                     /\ pc'[u] = "Failure"
                     /\ \A c \in CallsOf(u) :
                            c.op = "restore_db_instance_from_db_snapshot" =>
                                /\ c.id \notin DOMAIN dbs'
                                /\ \E d \in calls' :
                                       /\ d.uid = u /\ d.id = c.id
                                       /\ d.op = "delete_db_instance"
                                       /\ d.state_name = "ErrorCleanup"
                     /\ Range(trace'[u]) \cap
                            (SanitizeStates \cup {"TakeFinalSnapshot"}) = {}]_vars

C22_Witness ==
    \E u \in UIDs :
        /\ pc[u] = "Failure"
        /\ dbs[SourceDb].Engine = "oracle-ee"
        /\ Len(trace[u]) >= 3
        /\ trace[u][Len(trace[u]) - 2] = "ChooseSanitizer"
        /\ \E d \in CallsOf(u) : d.op = "delete_db_instance"

\* C23 (as claimed): the temporary snapshot identifier and the temporary
\* database identifier Initialize derives are at most 63 characters long.
C23_TemporaryIdentifiersFit ==
    \A u \in UIDs :
        (/\ execStatus[u] = "DIRECT"
         /\ pc[u] = "Initialize"
         /\ "temp_db_id" \in DOMAIN state[u]) =>
            /\ Len(state[u]["temp_db_id"]) <= 63
            /\ Len(state[u]["temporary_snapshot_id"]) <= 63

\* The databases and snapshots that carry the ownership tag of u.
TaggedDbs(u) ==
    Tagged([dbs |-> dbs, snapshots |-> snapshots], "rds:db", UidTag(u).Key, u)
TaggedSnapshots(u) ==
    Tagged([dbs |-> dbs, snapshots |-> snapshots], "rds:snapshot", UidTag(u).Key, u)

\* C24: one invocation of the cleanup handler, the first or a later one,
\* deletes only resources that carry the tag of u at that time; it returns
\* only when every database and every snapshot of the pages it listed has been
\* deleted, so no failed delete is passed over; and when it raises before the
\* databases of its page are all deleted, it has deleted no snapshot.
C24_CleanupSuppressesNoError ==
    [][\A u \in UIDs :
          (/\ execStatus[u] = "DIRECT"
           /\ pc[u] \in CleanupStateNames
           /\ attempts'[u] = attempts[u] + 1) =>
              LET goneDbs == (DOMAIN dbs) \ (DOMAIN dbs')
                  goneSnapshots == (DOMAIN snapshots) \ (DOMAIN snapshots')
                  listedDbs == Min(PageSize, Cardinality(TaggedDbs(u)))
                  listedSnapshots == Min(PageSize, Cardinality(TaggedSnapshots(u)))
              IN /\ goneDbs \subseteq TaggedDbs(u)
                 /\ goneSnapshots \subseteq TaggedSnapshots(u)
                 /\ {c.id : c \in calls' \ calls} = goneDbs \cup goneSnapshots
                 /\ lastError'[u] = "none" =>
                        /\ Cardinality(goneDbs) = listedDbs
                        /\ Cardinality(goneSnapshots) = listedSnapshots
                 /\ (lastError'[u] # "none" /\ Cardinality(goneDbs) < listedDbs) =>
                        goneSnapshots = {}
                 /\ (Cardinality(goneDbs) < listedDbs
                         \/ Cardinality(goneSnapshots) < listedSnapshots) =>
                        lastError'[u] # "none"]_vars

C24_Witness ==
    \E u \in UIDs :
        /\ execStatus[u] = "DIRECT" /\ pc[u] = "Cleanup"
        /\ attempts[u] = 1 /\ lastError[u] = "ClientError"
        /\ \E d \in CallsOf(u) : d.op = "delete_db_instance"
        /\ \A d \in CallsOf(u) : d.op # "delete_db_snapshot"
        /\ TaggedDbs(u) # {}
        /\ TaggedSnapshots(u) # {}

\* The ownership tags of the executions.
OwnershipTags == {UidTag(u) : u \in UIDs}

\* C26: no step removes the source database; a delete call is made in Cleanup
\* or ErrorCleanup, for a resource that carries the ownership tag of the
\* caller, and never for the snapshot a temporary database was restored from
\* or a snapshot TakeFinalSnapshot created; every snapshot without an
\* ownership tag of a run (the pre-existing ones, the selected one among them,
\* and the target snapshot) stays; and in Success the target snapshot exists.
C26_CleanupSparesSourceAndTarget ==
    [][/\ SourceDb \in DOMAIN dbs'
       /\ \A d \in calls' \ calls :
              d.op \in DeleteOps =>
                  /\ d.state_name \in CleanupStateNames
                  /\ d.id # SourceDb
                  /\ UidTag(d.uid) \in d.Tags
                  /\ d.op = "delete_db_snapshot" =>
                         /\ ~\E c \in calls : c.state_name = "TakeFinalSnapshot"
                                              /\ c.id = d.id
                         /\ ~\E r \in calls :
                                /\ r.op = "restore_db_instance_from_db_snapshot"
                                /\ r.source = d.id
       /\ \A i \in DOMAIN snapshots :
              snapshots[i].Tags \cap OwnershipTags = {} => i \in DOMAIN snapshots'
       /\ \A u \in UIDs :
              pc'[u] = "Success" =>
                  /\ state'[u]["target_snapshot_id"] \in DOMAIN snapshots'
                  /\ \E c \in calls' :
                         /\ c.uid = u /\ c.state_name = "TakeFinalSnapshot"
                         /\ c.id = state'[u]["target_snapshot_id"]]_vars

C26_Witness ==
    \E u \in UIDs :
        /\ pc[u] = "Success" /\ execStatus[u] = "SUCCEEDED"
        /\ state[u]["target_snapshot_id"] \in DOMAIN snapshots
        /\ Snap1 \in DOMAIN snapshots
        /\ \E d \in CallsOf(u) : d.op = "delete_db_instance"
                                 /\ d.state_name = "Cleanup"

\* C27: in ShareSnapshot the payload's snapshot_id is target_snapshot_id, the
\* snapshot TakeFinalSnapshot of this run took of the temporary database; a
\* grant of restore permission names such a snapshot and never the snapshot a
\* temporary database was restored from or one TakeSnapshot created.
C27_OnlyTargetSnapshotShared ==
    /\ \A u \in UIDs :
           (Running(u) /\ pc[u] = "ShareSnapshot") =>
               /\ state[u]["snapshot_id"] = state[u]["target_snapshot_id"]
               /\ \E c \in CallsOf(u) :
                      /\ c.state_name = "TakeFinalSnapshot"
                      /\ c.id = state[u]["snapshot_id"]
                      /\ c.source = state[u]["temp_db_id"]
    /\ \A m \in calls :
           m.op = "modify_db_snapshot_attribute" =>
               /\ m.state_name = "ShareSnapshot"
               /\ \E c \in CallsOf(m.uid) :
                      c.state_name = "TakeFinalSnapshot" /\ c.id = m.id
               /\ ~\E r \in calls : r.op = "restore_db_instance_from_db_snapshot"
                                    /\ r.source = m.id
               /\ ~\E t \in calls : t.state_name = "TakeSnapshot" /\ t.id = m.id

C27_Witness ==
    \E u \in UIDs : \E m \in CallsOf(u) :
        /\ m.op = "modify_db_snapshot_attribute"
        /\ m.id \in DOMAIN snapshots
        /\ snapshots[m.id].restore # {}

\* The retries a state allows: MaxAttempts of its retrier, 0 without one.
RetriesAllowed(s) ==
    IF "Retry" \in DOMAIN StateMachine[s] /\ StateMachine[s].Retry # <<>>
    THEN StateMachine[s].Retry[1].MaxAttempts
    ELSE 0

\* C29: an execution enters every state name at most once, and the retries a
\* state has used never exceed 300 in a waiting state, 10 in Cleanup and
\* ErrorCleanup and 0 in any other state, so a state's handler is invoked at
\* most 301, 11 and 1 times and an execution at most that many times in all.
C29_NoCycleBoundedInvocations ==
    \A u \in UIDs :
        /\ \A i, j \in DOMAIN trace[u] : trace[u][i] = trace[u][j] => i = j
        /\ Len(trace[u]) <= Cardinality(DOMAIN StateMachine)
        /\ attempts[u] <= RetriesAllowed(pc[u])
        /\ attempts[u] <= IF pc[u] \in WaitingStates THEN 300
                          ELSE IF pc[u] \in CleanupStateNames THEN 10
                          ELSE 0

C29_Witness ==
    \E u \in UIDs :
        /\ Running(u) /\ pc[u] = "WaitForPassword" /\ attempts[u] = 300

\* The executions that can own resources: the two runs and the earlier one.
Owners == UIDs \cup {StaleUid}

\* C25: with two executions running side by side, a step of one execution
\* leaves in place every database and snapshot that carries the ownership tag
\* of another; a delete call is made in Cleanup or ErrorCleanup for a resource
\* whose only ownership tag is the caller's; and a resource an execution
\* creates carries no ownership tag but its creator's.
C25_CleanupDeletesOwnResourcesOnly ==
    [][/\ \A u \in UIDs :
              Moved(u) =>
                  \A v \in Owners \ {u} :
                      /\ TaggedDbs(v) \subseteq DOMAIN dbs'
                      /\ TaggedSnapshots(v) \subseteq DOMAIN snapshots'
       /\ \A d \in calls' \ calls :
              d.op \in DeleteOps =>
                  /\ d.state_name \in CleanupStateNames
                  /\ UidTag(d.uid) \in d.Tags
                  /\ \A t \in d.Tags : t.Key = UidTag(d.uid).Key => t.Value = d.uid
       /\ \A c \in calls' \ calls :
              c.op \in CreateOps =>
                  \A t \in Created(c, dbs', snapshots').Tags :
                      t.Key = UidTag(c.uid).Key => t.Value = c.uid]_vars

C25_Witness ==
    \E u, v \in UIDs :
        /\ u # v
        /\ pc[u] \in CleanupStateNames /\ Running(u)
        /\ attempts[u] = 1 /\ lastError[u] = "ClientError"
        /\ \E d \in CallsOf(u) : d.op = "delete_db_instance"
        /\ Running(v) /\ pc[v] \in CleanupStateNames
        /\ TaggedDbs(v) # {}

\* The names the stack's SnapshotFormat renders for its Db.
RenderedTargets ==
    {format(parameters.SnapshotFormat, parameters.Db, d) : d \in Dates}

\* The calls of TakeFinalSnapshot that created a snapshot.
TargetCreations(cs) == {c \in cs : c.state_name = "TakeFinalSnapshot"}

\* C28: the payload's target_snapshot_id is the name the format renders from
\* the source identifier and the date, whatever tokens Initialize drew; a
\* target name is created by at most one execution; an execution that runs
\* TakeFinalSnapshot when its target name exists creates nothing and enters
\* ErrorCleanup, and from there it reaches Failure when ErrorCleanup returns
\* and never Success; a delete made in ErrorCleanup is for a resource tagged
\* with the caller's execution id; and a created target snapshot stays.
C28_SameTargetNameOneCreator ==
    [][/\ \A u \in UIDs :
              "target_snapshot_id" \in DOMAIN state'[u] =>
                  state'[u]["target_snapshot_id"] \in RenderedTargets
       /\ \A c1, c2 \in TargetCreations(calls') : c1.id = c2.id => c1.uid = c2.uid
       /\ \A u \in UIDs :
              (/\ Moved(u) /\ pc[u] = "TakeFinalSnapshot"
               /\ state[u]["target_snapshot_id"] \in DOMAIN snapshots) =>
                  /\ lastError'[u] \in {"DBSnapshotAlreadyExistsFault", "ClientError"}
                  /\ pc'[u] = "ErrorCleanup"
                  /\ snapshots' = snapshots /\ dbs' = dbs /\ calls' = calls
       /\ \A u \in UIDs :
              (/\ Moved(u) /\ pc[u] = "ErrorCleanup"
               /\ trace[u][Len(trace[u]) - 1] = "TakeFinalSnapshot") =>
                  /\ pc'[u] = IF lastError'[u] = "none" THEN "Failure"
                              ELSE "ErrorCleanup"
                  /\ execStatus'[u] # "SUCCEEDED"
       /\ \A u \in UIDs :
              (Moved(u) /\ pc[u] = "Failure") => execStatus'[u] = "FAILED"
       /\ \A d \in calls' \ calls :
              d.state_name = "ErrorCleanup" =>
                  /\ d.op \in DeleteOps
                  /\ UidTag(d.uid) \in d.Tags
                  /\ d.id \notin {c.id : c \in TargetCreations(calls)}
       /\ \A c \in TargetCreations(calls') : c.id \in DOMAIN snapshots']_vars

C28_Witness ==
    \E u, v \in UIDs :
        /\ u # v
        /\ pc[u] = "Failure" /\ execStatus[u] = "FAILED"
        /\ state[u]["Error"] = "DBSnapshotAlreadyExistsFault"
        /\ trace[u][Len(trace[u]) - 2] = "TakeFinalSnapshot"
        /\ \E d \in CallsOf(u) : d.op = "delete_db_instance"
                                 /\ d.state_name = "ErrorCleanup"
        /\ TargetCreations(CallsOf(u)) = {}
        /\ \E c \in TargetCreations(CallsOf(v)) : c.id \in DOMAIN snapshots
====
